---- MODULE Spec2Model ----
(***************************************************************************)
(* Data plane of the mas-apigateway: the proxy engine (request_filter and  *)
(* upstream_peer of AgwProxy, data-plane/src/main.rs), the configuration   *)
(* store (ArcSwap<ConfigSnapshot>) with its single writer, the background  *)
(* updater of main(), and the plugin runtime's run_plugin / get_module     *)
(* (data-plane/src/wasm.rs).                                               *)
(*                                                                         *)
(* Strings that the code inspects byte by byte (URI paths, path prefixes)  *)
(* are sequences of one-character strings; names that are only compared    *)
(* for equality are TLA+ strings.  version_id is a natural number standing *)
(* for the order in which the control plane issued the snapshot.           *)
(***************************************************************************)
EXTENDS Integers, Sequences, FiniteSets, TLC

(***************************************************************************)
(* Bounds of the model.                                                    *)
(***************************************************************************)
\* number of requests of a run; they may all be in flight at once
NReq == 1
\* number of snapshots the control plane pushes after bootstrap in a run
MaxStores == 1
\* number of snapshots the control plane pushes on one stream of the
\* bootstrap loop
MaxStream == 2
\* number of worker threads that may be inside get_module at once
NCallers == 2
\* number of plugin invocations of a run; they may overlap
NInv == 2
\* bytes of linear memory of the instance a host function is called from
MemSize == 16
\* number of snapshots the control plane pushes in a run in which the
\* updater's stream is followed message by message
MaxFeed == 2
\* number of requests of one user through the route of the rate plugin
NRate == 6
\* number of listeners of the bootstrap snapshot at most, where setup is
\* followed listener by listener
MaxListeners == 2
\* number of messages the client of the connection sends
NMsg == 2

(***************************************************************************)
(* Program constants.                                                      *)
(***************************************************************************)
\* width of the cast `endpoint.port as u16`
U16 == 65536

(***************************************************************************)
(* Strings.                                                                *)
(***************************************************************************)
PfxRoot == <<"/">>
PfxApi == <<"/", "a", "p", "i">>
PfxApiX == <<"/", "a", "p", "i", "/", "x">>
PfxO == <<"/", "o">>

PathApiX == <<"/", "a", "p", "i", "/", "x">>
PathApi == <<"/", "a", "p", "i">>
PathOther == <<"/", "o", "t", "h", "e", "r">>

\* the URI paths of the requests the model sends
Paths == {PathApiX, PathApi, PathOther}

(***************************************************************************)
(* The plugin files on disk: what Module::from_file, instantiate,          *)
(* get_typed_func and call_async make of each wasm_path.                   *)
(*   absent    the file does not exist                                     *)
(*   corrupt   the file is not a valid module (compilation fails)          *)
(*   nolink    an import is not provided by the linker (instantiation      *)
(*             fails)                                                      *)
(*   noexport  no on_request export of type () -> i32                      *)
(*   trap      on_request traps                                            *)
(*   ret0/ret1/ret7  on_request returns that i32                          *)
(*   hostpanic  on_request calls agw_redis_command with cmd_len = -1: the  *)
(*             host function panics in `vec![0u8; cmd_len as usize]` and   *)
(*             wasmtime resumes the panic in the caller of call_async      *)
(***************************************************************************)
WasmPaths ==
    {"allow.wasm", "deny.wasm", "deny7.wasm", "trap.wasm", "absent.wasm",
     "corrupt.wasm", "nolink.wasm", "noexport.wasm", "hostpanic.wasm"}

Files ==
    [p \in WasmPaths |->
        CASE p = "allow.wasm" -> "ret0"
          [] p = "deny.wasm" -> "ret1"
          [] p = "deny7.wasm" -> "ret7"
          [] p = "trap.wasm" -> "trap"
          [] p = "absent.wasm" -> "absent"
          [] p = "corrupt.wasm" -> "corrupt"
          [] p = "nolink.wasm" -> "nolink"
          [] p = "noexport.wasm" -> "noexport"
          [] p = "hostpanic.wasm" -> "hostpanic"]

Plugin(n, p) == [name |-> n, wasm_path |-> p]
Allow == Plugin("allow", "allow.wasm")
Deny == Plugin("deny-all", "deny.wasm")
Deny7 == Plugin("deny-7", "deny7.wasm")
Trap == Plugin("trap", "trap.wasm")
PanicPlugin == Plugin("host-panic", "hostpanic.wasm")
Absent == Plugin("absent", "absent.wasm")
Corrupt == Plugin("corrupt", "corrupt.wasm")
NoLink == Plugin("nolink", "nolink.wasm")
NoExport == Plugin("noexport", "noexport.wasm")

(***************************************************************************)
(* ConfigSnapshot messages the control plane can push.                     *)
(***************************************************************************)
Endpoint(a, p) == [address |-> a, port |-> p]
Cluster(n, eps) == [name |-> n, endpoints |-> eps]
Route(pre, c, pl) == [path_prefix |-> pre, cluster_id |-> c, plugins |-> pl]
Listener(n, a, p) == [name |-> n, address |-> a, port |-> p]

SvcA == Cluster("svcA", <<Endpoint("10.0.0.1", 9000)>>)
SvcB == Cluster("svcB", <<Endpoint("10.0.0.2", 9001), Endpoint("10.0.0.3", 9002)>>)
\* a port that does not fit 16 bits: 65536 + 9000
SvcW == Cluster("svcW", <<Endpoint("10.0.0.4", 74536), Endpoint("10.0.0.1", 9000)>>)
SvcE == Cluster("svcE", <<>>)

Http == Listener("http", "0.0.0.0", 8080)

Snapshot(v, ls, rs, cs) ==
    [version_id |-> v, listeners |-> ls, routes |-> rs, clusters |-> cs]

Catalog ==
    << \* 1: /api -> svcA, no plugins
       Snapshot(1, <<Http>>,
                <<Route(PfxApi, "svcA", <<>>)>>,
                <<SvcA>>),
       \* 2: /api moved to svcB; /o guarded by two allowing plugins
       Snapshot(2, <<Http>>,
                <<Route(PfxApi, "svcB", <<>>),
                  Route(PfxO, "svcW", <<Allow, Allow>>)>>,
                <<SvcA, SvcB, SvcW>>),
       \* 3: a shorter prefix listed before a longer one
       Snapshot(3, <<Http>>,
                <<Route(PfxRoot, "svcA", <<Allow, Deny, Allow>>),
                  Route(PfxApi, "svcB", <<>>)>>,
                <<SvcA, SvcB>>),
       \* 4: a trapping plugin in mid-chain; a cluster without endpoints
       Snapshot(4, <<Http>>,
                <<Route(PfxApi, "svcA", <<Allow, Trap, Deny>>),
                  Route(PfxO, "svcE", <<>>)>>,
                <<SvcA, SvcE>>),
       \* 5: no listeners; a cluster_id that names no cluster; an empty
       \*    cluster_id; a plugin whose file is absent
       Snapshot(2, <<>>,
                <<Route(PfxApiX, "svcX", <<>>),
                  Route(PfxApi, "", <<>>),
                  Route(PfxRoot, "svcA", <<Absent>>)>>,
                <<SvcA>>),
       \* 6: no routes at all
       Snapshot(5, <<Http>>, <<>>, <<>>),
       \* 7: modules that fail to instantiate, to export, to compile
       Snapshot(1, <<Http>>,
                <<Route(PfxApiX, "svcA", <<NoLink>>),
                  Route(PfxApi, "svcA", <<Allow, NoExport>>),
                  Route(PfxRoot, "svcA", <<Corrupt, Allow>>)>>,
                <<SvcA>>),
       \* 8: a longer prefix listed before a shorter one; non-zero deny
       Snapshot(3, <<Http>>,
                <<Route(PfxApi, "svcW", <<>>),
                  Route(PfxRoot, "svcB", <<Deny7, Trap>>)>>,
                <<SvcB, SvcW>>),
       \* 9: a plugin whose host call panics, after an allowing one
       Snapshot(4, <<Http>>,
                <<Route(PfxO, "svcA", <<Allow, PanicPlugin>>)>>,
                <<SvcA>>) >>

SnapIds == 1..Len(Catalog)

VARIABLES
    config,     \* ArcSwap<ConfigSnapshot>: the published snapshot (Catalog index)
    modules,    \* WasmRuntime.modules: the wasm_paths with a cached Module
    req,        \* per request slot: position and per-request data
    updater,    \* position of the background updater thread
    stores,     \* number of store() calls completed so far
    latest,     \* history: the snapshot most recently handed to store()
                \* (the bootstrap snapshot before the first store)
    initial_config, \* main's initial_config: the snapshot bootstrap returned
                    \* (0 while the bootstrap loop is still running)
    boot,       \* main() before run_forever: position of the bootstrap loop,
                \* the subscription stream it holds, and history fields
    feed,       \* the subscription stream the updater holds, message by
                \* message, where a specification follows it
    gm,         \* get_module followed lock by lock: the module cache with the
                \* identity of each cached Module, and the calls in progress
    vm,         \* run_plugin followed step by step: the Store of each
                \* invocation in progress (context and linear memory)
    hc,         \* plugin code followed on its own: one call of a host
                \* function (arguments, context and memory, what it handed
                \* back), or the requests through a route guarded by the
                \* user-agent plugin or by the rate plugin
    bpf         \* the eBPF agent: the user-space loader's position and
                \* attachments, or the SockMap and the sockets of one
                \* connection under the two kernel programs

vars == <<config, modules, req, updater, stores, latest, initial_config, boot,
          feed, gm, vm, hc, bpf>>

\* the variables of the plugin runtime followed step by step and of the
\* eBPF agent
plugVars == <<gm, vm, hc, bpf>>

\* the variables of the parts of the program the proxy engine and the
\* updater never touch
others == <<boot, feed, gm, vm, hc, bpf>>

(***************************************************************************)
(* Pure functions of the proxy engine.                                     *)
(***************************************************************************)
\* str::starts_with
StartsWith(s, p) ==
    /\ Len(p) <= Len(s)
    /\ SubSeq(s, 1, Len(p)) = p

\* the route loop of request_filter and of upstream_peer: scan from index i,
\* stop at the first route whose path_prefix the path starts with; 0 = none
RECURSIVE MatchFrom(_, _, _)
MatchFrom(routes, path, i) ==
    IF i > Len(routes) THEN 0
    ELSE IF StartsWith(path, routes[i].path_prefix) THEN i
    ELSE MatchFrom(routes, path, i + 1)

\* longest-prefix-wins, the other matching rule
MatchRouteLongest(routes, path) ==
    LET hit == {i \in 1..Len(routes) : StartsWith(path, routes[i].path_prefix)}
    IN  IF hit = {} THEN 0
        ELSE CHOOSE i \in hit :
               \A j \in hit :
                  \/ Len(routes[j].path_prefix) < Len(routes[i].path_prefix)
                  \/ /\ Len(routes[j].path_prefix) = Len(routes[i].path_prefix)
                     /\ i <= j

MatchRoute(routes, path) == MatchFrom(routes, path, 1)

\* config.clusters.iter().find(|c| c.name == cluster_name): index, 0 = None
RECURSIVE FindClusterFrom(_, _, _)
FindClusterFrom(clusters, name, i) ==
    IF i > Len(clusters) THEN 0
    ELSE IF clusters[i].name = name THEN i
    ELSE FindClusterFrom(clusters, name, i + 1)

FindCluster(clusters, name) == FindClusterFrom(clusters, name, 1)

\* `endpoint.port as u16`
PortAsU16(p) == p % U16

NoPeer == [kind |-> "none", status |-> 0, address |-> "", port |-> 0,
           tls |-> FALSE, sni |-> ""]
PeerErr(st) == [NoPeer EXCEPT !.kind = "err", !.status = st]
\* HttpPeer::new(addr, false, "".to_string())
HttpPeer(a, p) == [NoPeer EXCEPT !.kind = "peer", !.address = a, !.port = p]

\* the second route loop, in upstream_peer: cluster_name stays "" until a
\* route matches, then takes that route's cluster_id and the loop breaks
RECURSIVE PeerClusterFrom(_, _, _)
PeerClusterFrom(routes, path, i) ==
    IF i > Len(routes) THEN ""
    ELSE IF StartsWith(path, routes[i].path_prefix) THEN routes[i].cluster_id
    ELSE PeerClusterFrom(routes, path, i + 1)

\* the same loop without its `break`: the last matching route wins
RECURSIVE PeerClusterNoBreak(_, _, _, _)
PeerClusterNoBreak(routes, path, i, name) ==
    IF i > Len(routes) THEN name
    ELSE IF StartsWith(path, routes[i].path_prefix)
         THEN PeerClusterNoBreak(routes, path, i + 1, routes[i].cluster_id)
    ELSE PeerClusterNoBreak(routes, path, i + 1, name)

PeerClusterLast(routes, path) == PeerClusterNoBreak(routes, path, 1, "")

PeerCluster(routes, path) == PeerClusterFrom(routes, path, 1)

\* upstream_peer after its route loop: service discovery, first endpoint
UpstreamSelect(snap, cluster_name) ==
    LET c == FindCluster(snap.clusters, cluster_name)
    IN  IF cluster_name = "" THEN PeerErr(502)
        ELSE IF c # 0 /\ snap.clusters[c].endpoints # <<>>
             THEN HttpPeer(snap.clusters[c].endpoints[1].address,
                           PortAsU16(snap.clusters[c].endpoints[1].port))
        ELSE PeerErr(503)

(***************************************************************************)
(* Plugin runtime.                                                         *)
(***************************************************************************)
\* get_module: Ok iff the path is cached, or the file exists and compiles
GetModuleOk(path, mods) ==
    \/ path \in mods
    \/ Files[path] \notin {"absent", "corrupt"}

\* the cache after get_module(path)
GetModuleCache(path, mods) ==
    IF GetModuleOk(path, mods) THEN mods \cup {path} ELSE mods

\* the i32 that on_request returns
OnRequestResult(kind) ==
    CASE kind = "ret0" -> 0
      [] kind = "ret1" -> 1
      [] kind = "ret7" -> 7

\* run_plugin failing open: an Err counted as Ok(true)
RunPluginFailOpen(path, mods) ==
    IF ~GetModuleOk(path, mods) THEN "allow"
    ELSE IF Files[path] \in {"nolink", "noexport", "trap"} THEN "allow"
    ELSE IF Files[path] = "hostpanic" THEN "panic"
    ELSE IF OnRequestResult(Files[path]) = 0 THEN "allow" ELSE "deny"

\* run_plugin: Err -> "error", Ok(true) -> "allow", Ok(false) -> "deny";
\* "panic" when a host function called by on_request panics, which unwinds
\* through call_async and run_plugin into request_filter
RunPlugin(path, mods) ==
    IF ~GetModuleOk(path, mods) THEN "error"
    ELSE IF Files[path] \in {"nolink", "noexport", "trap"} THEN "error"
    ELSE IF Files[path] = "hostpanic" THEN "panic"
    ELSE IF OnRequestResult(Files[path]) = 0 THEN "allow" ELSE "deny"

(***************************************************************************)
(* request_filter, as the steps between its suspension points.  A request  *)
(* that is "done" keeps its record: what it loaded, what ran, what was     *)
(* answered.                                                               *)
(***************************************************************************)
FreshReq ==
    [pc |-> "idle", path |-> <<>>, rfSnap |-> 0, route |-> 0, next |-> 0,
     invoked |-> <<>>, resp |-> <<>>, handled |-> "none",
     upRan |-> FALSE, upSnap |-> 0, upCluster |-> "", peer |-> NoPeer,
     rfLatest |-> 0, upLatest |-> 0, older |-> FALSE]

Reqs == 1..NReq

\* request_filter without its 404: a miss falls through to Ok(false)
FilterStartNoMatchForwards(snap, path) ==
    LET i == MatchRoute(snap.routes, path)
    IN  IF i = 0 \/ snap.routes[i].plugins = <<>>
        THEN [pc |-> "forward", route |-> i, next |-> 0, resp |-> <<>>,
              handled |-> "false"]
        ELSE [pc |-> "plugins", route |-> i, next |-> 1, resp |-> <<>>,
              handled |-> "none"]

\* request_filter from its load() to the first plugin call: the route match,
\* the 404 of a miss, the immediate Ok(false) of a route without plugins
FilterStart(snap, path) ==
    LET i == MatchRoute(snap.routes, path)
    IN  IF i = 0
        THEN [pc |-> "done", route |-> 0, next |-> 0, resp |-> <<404>>,
              handled |-> "true"]
        ELSE IF snap.routes[i].plugins = <<>>
        THEN [pc |-> "forward", route |-> i, next |-> 0, resp |-> <<>>,
              handled |-> "false"]
        ELSE [pc |-> "plugins", route |-> i, next |-> 1, resp |-> <<>>,
              handled |-> "none"]

\* the match without `if !allow`: a deny continues like an allow
FilterStepSkipsDeny(verdict, k, n) ==
    CASE verdict = "error" ->
           [pc |-> "done", next |-> k, resp |-> <<500>>, handled |-> "true"]
      [] verdict = "panic" ->
           [pc |-> "panicked", next |-> k, resp |-> <<>>, handled |-> "none"]
      [] verdict \in {"allow", "deny"} /\ k < n ->
           [pc |-> "plugins", next |-> k + 1, resp |-> <<>>, handled |-> "none"]
      [] OTHER ->
           [pc |-> "forward", next |-> k, resp |-> <<>>, handled |-> "false"]

\* the match on run_plugin's result for plugin k of n; a panic unwinding out
\* of run_plugin ends request_filter with no response and no return value
FilterStep(verdict, k, n) ==
    CASE verdict = "deny" ->
           [pc |-> "done", next |-> k, resp |-> <<403>>, handled |-> "true"]
      [] verdict = "error" ->
           [pc |-> "done", next |-> k, resp |-> <<500>>, handled |-> "true"]
      [] verdict = "panic" ->
           [pc |-> "panicked", next |-> k, resp |-> <<>>, handled |-> "none"]
      [] verdict = "allow" /\ k < n ->
           [pc |-> "plugins", next |-> k + 1, resp |-> <<>>, handled |-> "none"]
      [] OTHER ->
           [pc |-> "forward", next |-> k, resp |-> <<>>, handled |-> "false"]

\* a request arrives: load(), route match
RequestFilter(r) ==
    /\ boot.pc = "serving"
    /\ req[r].pc = "idle"
    /\ \E path \in Paths :
         LET s == FilterStart(Catalog[config], path)
         IN  req' = [req EXCEPT ![r] =
                       [FreshReq EXCEPT !.pc = s.pc, !.path = path,
                                        !.rfSnap = config, !.route = s.route,
                                        !.next = s.next, !.resp = s.resp,
                                        !.handled = s.handled,
                                        !.rfLatest = latest]]
    /\ UNCHANGED <<config, modules, updater, stores, latest, initial_config>>
    /\ UNCHANGED others

\* one turn of `for plugin in &route.plugins`: run_plugin to completion
\* (get_module with its cache insert, instantiate, on_request) and the match
\* on its result.  The header map built before the loop is not read by the
\* plugin files of this model.
RunNextPlugin(r) ==
    /\ req[r].pc = "plugins"
    /\ LET plugins == Catalog[req[r].rfSnap].routes[req[r].route].plugins
           k == req[r].next
           path == plugins[k].wasm_path
           s == FilterStep(RunPlugin(path, modules), k, Len(plugins))
       IN  /\ modules' = GetModuleCache(path, modules)
           /\ req' = [req EXCEPT ![r].pc = s.pc, ![r].next = s.next,
                                 ![r].invoked = Append(@, k),
                                 ![r].resp = @ \o s.resp,
                                 ![r].handled = s.handled]
    /\ UNCHANGED <<config, updater, stores, latest, initial_config>>
    /\ UNCHANGED others

\* the framework calls upstream_peer after request_filter returned Ok(false)
UpstreamPeer(r) ==
    /\ req[r].pc = "forward"
    /\ LET cluster_name == PeerCluster(Catalog[config].routes, req[r].path)
       IN  req' = [req EXCEPT ![r].pc = "done", ![r].upRan = TRUE,
                              ![r].upSnap = config, ![r].upLatest = latest,
                              ![r].upCluster = cluster_name,
                              ![r].peer = UpstreamSelect(Catalog[config],
                                                         cluster_name)]
    /\ UNCHANGED <<config, modules, updater, stores, latest, initial_config>>
    /\ UNCHANGED others

(***************************************************************************)
(* The background updater of main().                                       *)
(***************************************************************************)
\* AgwClient::connect
UpdaterConnect ==
    /\ updater = "connect"
    /\ \/ updater' = "handshake"
       \/ updater' = "sleep"
    /\ UNCHANGED <<config, modules, req, stores, latest, initial_config>>
    /\ UNCHANGED others

\* client.stream_config(request)
UpdaterHandshake ==
    /\ updater = "handshake"
    /\ \/ updater' = "stream"
       \/ updater' = "sleep"
    /\ UNCHANGED <<config, modules, req, stores, latest, initial_config>>
    /\ UNCHANGED others

\* store() handed the bootstrap snapshot instead of the received one
PublishedBootstrap(snapshot) == initial_config

\* the value handed to store(): Arc::new(snapshot)
Published(snapshot) == snapshot

\* stream.message() yields Ok(Some(snapshot)); config_store.store(...)
UpdaterStore(snapshot) ==
    /\ updater = "stream"
    /\ stores < MaxStores
    /\ config' = Published(snapshot)
    /\ stores' = stores + 1
    /\ latest' = snapshot
    /\ req' = [r \in Reqs |->
                 IF req[r].pc \in {"plugins", "forward"}
                 THEN [req[r] EXCEPT
                         !.older = @ \/ (Catalog[snapshot].version_id
                                           < Catalog[config].version_id)]
                 ELSE req[r]]
    /\ UNCHANGED <<modules, updater, initial_config>>
    /\ UNCHANGED others

\* the end of a stream falling back to the bootstrap snapshot
UpdaterStreamEndResets ==
    /\ updater = "stream"
    /\ updater' = "sleep"
    /\ config' = initial_config
    /\ UNCHANGED <<modules, req, stores, latest, initial_config>>
    /\ UNCHANGED others

\* stream.message() yields Ok(None) or Err: the while loop ends
UpdaterStreamEnd ==
    /\ updater = "stream"
    /\ updater' = "sleep"
    /\ UNCHANGED <<config, modules, req, stores, latest, initial_config>>
    /\ UNCHANGED others

\* tokio::time::sleep(5 s) returns; next turn of the loop
UpdaterWake ==
    /\ updater = "sleep"
    /\ updater' = "connect"
    /\ UNCHANGED <<config, modules, req, stores, latest, initial_config>>
    /\ UNCHANGED others

(***************************************************************************)
(* main() from the bootstrap loop to run_forever.  The control plane is    *)
(* the environment: it may refuse the connection or the handshake, push    *)
(* snapshots on an open stream, and end or break the stream.               *)
(***************************************************************************)
(***************************************************************************)
(* Bytes, header maps and linear memory.  A byte is a one-character        *)
(* string; "~" stands for a byte above 0x7f, which is neither visible      *)
(* ASCII nor, on its own, UTF-8.                                           *)
(***************************************************************************)
\* the machine word of the host, scaled from 64 bits to 30 so that it fits
\* the model checker's integers; every length and offset of the model is
\* far below it
Usize == 1073741824

\* `x as usize` for an i32 x: sign extension to the host word
AsUsize(x) == x % Usize

\* char::to_lowercase on the letters of this model
Lower(c) ==
    CASE c = "A" -> "a"
      [] c = "E" -> "e"
      [] c = "G" -> "g"
      [] c = "N" -> "n"
      [] c = "R" -> "r"
      [] c = "S" -> "s"
      [] c = "T" -> "t"
      [] c = "U" -> "u"
      [] c = "X" -> "x"
      [] OTHER -> c

\* str::to_lowercase; also the form in which http::HeaderName holds a name
ToLowercase(s) == [k \in DOMAIN s |-> Lower(s[k])]

\* HeaderValue::to_str is Ok: every byte is visible ASCII
ToStrOk(v) == \A k \in DOMAIN v : v[k] # "~"

\* String::from_utf8 is Ok
FromUtf8Ok(bytes) == \A k \in DOMAIN bytes : bytes[k] # "~"

\* a request header as it stands in the request
Header(n, v) == [name |-> n, value |-> v]

\* HashMap<String, String> as a set of <<key, value>> with distinct keys
MapInsert(map, k, v) == {e \in map : e[1] # k} \cup {<<k, v>>}

MapHas(map, k) == \E e \in map : e[1] = k

MapGet(map, k) == (CHOOSE e \in map : e[1] = k)[2]

\* the header map of request_filter: every header of the request whose
\* value to_str accepts, inserted under its lower-case name in the order of
\* the request
RECURSIVE HeadersFrom(_, _, _)
HeadersFrom(wire, i, map) ==
    IF i > Len(wire) THEN map
    ELSE HeadersFrom(wire, i + 1,
                     IF ToStrOk(wire[i].value)
                     THEN MapInsert(map, ToLowercase(wire[i].name),
                                    wire[i].value)
                     ELSE map)

BuildHeaders(wire) == HeadersFrom(wire, 1, {})

\* Memory::read: len bytes at offset off, or an error outside the memory
MemRead(mem, off, len) ==
    IF off + len <= Len(mem)
    THEN [ok |-> TRUE, bytes |-> SubSeq(mem, off + 1, off + len)]
    ELSE [ok |-> FALSE, bytes |-> <<>>]

\* Memory::write: the bytes at offset off, or an error and no write outside
\* the memory
MemWrite(mem, off, bytes) ==
    IF off + Len(bytes) <= Len(mem)
    THEN [ok |-> TRUE,
          mem |-> [k \in DOMAIN mem |->
                     IF k > off /\ k <= off + Len(bytes)
                     THEN bytes[k - off] ELSE mem[k]]]
    ELSE [ok |-> FALSE, mem |-> mem]

\* outcome of a host function: the i32 handed back to the plugin and the
\* linear memory after the call; panic: the host function panicked
HostRet(code, mem) == [ret |-> code, mem |-> mem, panic |-> FALSE]

HostPanic(mem) == [ret |-> 0, mem |-> mem, panic |-> TRUE]

\* the lookup comparing the name as the plugin wrote it
GetHeaderKeyExact(name) == name

\* ctx.headers.get(&name.to_lowercase()): the key looked up
GetHeaderKey(name) == ToLowercase(name)

\* agw_get_header.  exported: the instance exports "memory"
AgwGetHeader(headers, exported, mem, name_ptr, name_len, value_ptr, value_max_len) ==
    IF ~exported THEN HostRet(-1, mem)
    ELSE IF name_len < 0 THEN HostPanic(mem)
    ELSE LET name == MemRead(mem, AsUsize(name_ptr), AsUsize(name_len))
         IN  IF ~name.ok THEN HostRet(-1, mem)
             ELSE IF ~FromUtf8Ok(name.bytes) THEN HostRet(-1, mem)
             ELSE IF ~MapHas(headers, GetHeaderKey(name.bytes))
                  THEN HostRet(0, mem)
             ELSE LET value_bytes == MapGet(headers, GetHeaderKey(name.bytes))
                      len == Len(value_bytes)
                      w == MemWrite(mem, AsUsize(value_ptr), value_bytes)
                  IN  IF len > AsUsize(value_max_len) THEN HostRet(-1, mem)
                      ELSE IF ~w.ok THEN HostRet(-1, mem)
                      ELSE HostRet(len, w.mem)

\* serde_json whitespace, of which this model has the space
RECURSIVE JsonWs(_, _)
JsonWs(b, j) == IF j <= Len(b) /\ b[j] = " " THEN JsonWs(b, j + 1) ELSE j

JsonFail == [ok |-> FALSE, str |-> <<>>, args |-> <<>>, next |-> 0]

\* a JSON string after its opening quote: up to the closing quote, a
\* backslash escaping a quote, a backslash or a slash; no byte that is not
\* UTF-8
RECURSIVE JsonString(_, _, _)
JsonString(b, j, acc) ==
    IF j > Len(b) THEN JsonFail
    ELSE IF b[j] = "\"" THEN [JsonFail EXCEPT !.ok = TRUE, !.str = acc, !.next = j + 1]
    ELSE IF b[j] = "~" THEN JsonFail
    ELSE IF b[j] = "\\"
         THEN IF j + 1 <= Len(b) /\ b[j + 1] \in {"\"", "\\", "/"}
              THEN JsonString(b, j + 2, Append(acc, b[j + 1]))
              ELSE JsonFail
    ELSE JsonString(b, j + 1, Append(acc, b[j]))

\* the strings of a JSON array after its bracket or a comma
RECURSIVE JsonElems(_, _, _)
JsonElems(b, j, acc) ==
    LET k == JsonWs(b, j)
        s == JsonString(b, k + 1, <<>>)
        n == JsonWs(b, s.next)
    IN  IF k > Len(b) \/ b[k] # "\"" THEN JsonFail
        ELSE IF ~s.ok \/ n > Len(b) THEN JsonFail
        ELSE IF b[n] = "," THEN JsonElems(b, n + 1, Append(acc, s.str))
        ELSE IF b[n] = "]"
             THEN [JsonFail EXCEPT !.ok = TRUE, !.args = Append(acc, s.str), !.next = n + 1]
        ELSE JsonFail

\* serde_json::from_slice::<Vec<String>>: a JSON array of strings and
\* nothing after it
ParseArgs(bytes) ==
    LET k == JsonWs(bytes, 1)
        e == JsonWs(bytes, k + 1)
        r == JsonElems(bytes, k + 1, <<>>)
    IN  IF k > Len(bytes) \/ bytes[k] # "[" THEN JsonFail
        ELSE IF e <= Len(bytes) /\ bytes[e] = "]"
             THEN IF JsonWs(bytes, e + 1) > Len(bytes)
                  THEN [JsonFail EXCEPT !.ok = TRUE]
                  ELSE JsonFail
        ELSE IF r.ok /\ JsonWs(bytes, r.next) > Len(bytes)
             THEN [JsonFail EXCEPT !.ok = TRUE, !.args = r.args]
        ELSE JsonFail

\* String::from_utf8(buf).unwrap_or_default()
Utf8OrDefault(bytes) == IF FromUtf8Ok(bytes) THEN bytes ELSE <<>>

\* what the backend did with a command or a query
NoConn == [kind |-> "noconn", data |-> <<>>]
Replied(s) == [kind |-> "ok", data |-> s]
Failed(e) == [kind |-> "err", data |-> e]
NotText == [kind |-> "nottext", data |-> <<>>]

\* format!("ERR: {}", e).into_bytes()
RedisErrorBytes(e) == <<"E", "R", "R", ":", " ">> \o e

\* the bytes a host function hands back: -6 if they exceed out_max, -7 if
\* they do not fit the memory at out_ptr, else written and their length
WriteOut(mem, out_ptr, out_max, resp_bytes) ==
    LET w == MemWrite(mem, AsUsize(out_ptr), resp_bytes)
    IN  IF Len(resp_bytes) > AsUsize(out_max) THEN HostRet(-6, mem)
        ELSE IF ~w.ok THEN HostRet(-7, mem)
        ELSE HostRet(Len(resp_bytes), w.mem)

\* agw_redis_command.  redis: the names of ctx.resources.redis; backend:
\* what the connection and the command came to
AgwRedisCommand(redis, exported, mem, name_ptr, name_len, cmd_ptr, cmd_len, out_ptr, out_max, backend) ==
    IF ~exported THEN HostRet(-1, mem)
    ELSE IF name_len < 0 THEN HostPanic(mem)
    ELSE LET name == MemRead(mem, AsUsize(name_ptr), AsUsize(name_len))
         IN  IF ~name.ok THEN HostRet(-1, mem)
             ELSE IF cmd_len < 0 THEN HostPanic(mem)
             ELSE LET cmd_json == MemRead(mem, AsUsize(cmd_ptr),
                                          AsUsize(cmd_len))
                      parsed == ParseArgs(cmd_json.bytes)
                  IN  IF ~cmd_json.ok THEN HostRet(-2, mem)
                      ELSE IF ~parsed.ok THEN HostRet(-3, mem)
                      ELSE IF parsed.args = <<>> THEN HostRet(-3, mem)
                      ELSE IF Utf8OrDefault(name.bytes) \notin redis
                           THEN HostRet(-4, mem)
                      ELSE IF backend.kind = "noconn" THEN HostRet(-5, mem)
                      ELSE WriteOut(mem, out_ptr, out_max,
                                    IF backend.kind = "ok" THEN backend.data
                                    ELSE RedisErrorBytes(backend.data))

\* serde_json::to_string(&results) for at most one one-letter string
ResultsJson(results) ==
    IF results = <<>> THEN <<"[", "]">>
    ELSE <<"[", "\"">> \o results \o <<"\"", "]">>

\* agw_db_query.  postgres, mysql: the names of ctx.resources.postgres and
\* ctx.resources.mysql; backend: what the query came to
AgwDbQuery(postgres, mysql, exported, mem, name_ptr, name_len, sql_ptr, sql_len, out_ptr, out_max, backend) ==
    IF ~exported THEN HostRet(-1, mem)
    ELSE IF name_len < 0 THEN HostPanic(mem)
    ELSE LET name == MemRead(mem, AsUsize(name_ptr), AsUsize(name_len))
         IN  IF ~name.ok THEN HostRet(-1, mem)
             ELSE IF sql_len < 0 THEN HostPanic(mem)
             ELSE IF ~MemRead(mem, AsUsize(sql_ptr), AsUsize(sql_len)).ok
                  THEN HostRet(-2, mem)
             ELSE IF Utf8OrDefault(name.bytes) \notin postgres \cup mysql
                  THEN HostRet(-4, mem)
             ELSE IF backend.kind \in {"err", "noconn"} THEN HostRet(-5, mem)
             ELSE IF backend.kind = "nottext" THEN HostRet(-8, mem)
             ELSE WriteOut(mem, out_ptr, out_max, ResultsJson(backend.data))

(***************************************************************************)
(* run_plugin, one Store per call.  The plugin of this part keeps a mark   *)
(* in its linear memory: on_request returns 1 if the mark is set, else     *)
(* asks the host for header "x" into a 3 byte buffer, sets the mark and    *)
(* returns 0.                                                              *)
(***************************************************************************)
Invs == 1..NInv

\* the data segment of the plugin: the name "x" at offset 0, the mark at
\* offset 1, the buffer at offsets 2..4
MarkImage == <<"x", "0", "0", "0", "0">>

\* the requests the invocations are made for
InvWires ==
    { <<>>,
      <<Header(<<"x">>, <<"a">>)>>,
      <<Header(<<"X">>, <<"b", "b">>)>> }

\* no run_plugin call in progress
NoInv ==
    [pc |-> "idle", wire |-> <<>>, headers |-> {}, mem |-> <<>>,
     got |-> <<>>, result |-> 0, verdict |-> "none"]

NoInvs == [run |-> [i \in Invs |-> NoInv], left |-> <<>>]

\* no host function has been called
NoHostCall == [phase |-> "idle"]

\* the eBPF agent not started, no connection followed
NoBpf == [pc |-> "off"]

Callers == 1..NCallers

\* the plugin files the threads ask for
CachePaths == {"allow.wasm", "deny.wasm", "absent.wasm", "corrupt.wasm"}

\* a thread outside get_module
NoCall == [pc |-> "idle", path |-> "", module |-> 0]

\* WasmRuntime::new: an empty cache, nobody inside get_module
NoCalls ==
    [cache |-> [p \in CachePaths |-> 0],
     call |-> [t \in Callers |-> NoCall],
     returned |-> [p \in CachePaths |-> {}]]

\* the updater holds no stream
NoFeed ==
    [open |-> FALSE, stream |-> <<>>, pushed |-> 0, last |-> 0, opened |-> 0]

\* the snapshots the control plane may push while the proxy starts
BootFeed == {1, 2, 5}

\* the failures the loop logs before it sleeps
BootCauses == {"connect", "handshake", "end", "empty"}

\* main() at position pc holding no stream
BootAt(pc) ==
    [pc |-> pc, open |-> FALSE, stream |-> <<>>, sent |-> 0, cause |-> "none",
     failed |-> {}, firstHead |-> 0, firstPushed |-> 0]

\* the loop goes to tokio::time::sleep(2 s) after logging `why`
BootRetry(why) ==
    [boot EXCEPT !.pc = "sleep", !.open = FALSE, !.stream = <<>>,
                 !.cause = why, !.failed = @ \cup {why}]

\* AgwClient::connect(cp_url, "node-1")
BootConnect ==
    /\ boot.pc = "connect"
    /\ \/ boot' = [boot EXCEPT !.pc = "handshake"]
       \/ boot' = BootRetry("connect")
    /\ UNCHANGED <<config, modules, req, updater, stores, latest,
                   initial_config, feed>>
    /\ UNCHANGED plugVars

\* client.client.stream_config(request); resp.into_inner()
BootHandshake ==
    /\ boot.pc = "handshake"
    /\ \/ boot' = [boot EXCEPT !.pc = "message", !.open = TRUE,
                               !.stream = <<>>, !.sent = 0]
       \/ boot' = BootRetry("handshake")
    /\ UNCHANGED <<config, modules, req, updater, stores, latest,
                   initial_config, feed>>
    /\ UNCHANGED plugVars

\* the control plane pushes a snapshot on the stream the loop holds
CpPush(snapshot) ==
    /\ boot.pc = "message"
    /\ boot.open
    /\ boot.sent < MaxStream
    /\ boot' = [boot EXCEPT
                  !.stream = Append(@, snapshot),
                  !.sent = @ + 1,
                  !.firstHead =
                      IF @ = 0 /\ boot.sent = 0
                               /\ Catalog[snapshot].listeners # <<>>
                      THEN snapshot ELSE @,
                  !.firstPushed =
                      IF @ = 0 /\ Catalog[snapshot].listeners # <<>>
                      THEN snapshot ELSE @]
    /\ UNCHANGED <<config, modules, req, updater, stores, latest,
                   initial_config, feed>>
    /\ UNCHANGED plugVars

\* the control plane ends the stream; what it pushed is still delivered
CpClose ==
    /\ boot.pc = "message"
    /\ boot.open
    /\ boot' = [boot EXCEPT !.open = FALSE]
    /\ UNCHANGED <<config, modules, req, updater, stores, latest,
                   initial_config, feed>>
    /\ UNCHANGED plugVars

\* the transport breaks; what was pushed and not yet read is lost
CpAbort ==
    /\ boot.pc = "message"
    /\ boot.open
    /\ boot.stream # <<>>
    /\ boot' = [boot EXCEPT !.open = FALSE, !.stream = <<>>]
    /\ UNCHANGED <<config, modules, req, updater, stores, latest,
                   initial_config, feed>>
    /\ UNCHANGED plugVars

\* the loop returning whatever it reads first
BootAcceptsAny(snapshot) == TRUE

\* the loop never returning
BootAcceptsNone(snapshot) == FALSE

\* !snapshot.listeners.is_empty()
BootAccepts(snapshot) == Catalog[snapshot].listeners # <<>>

\* `if let Ok(Some(snapshot)) = stream.message().await`: one message is
\* read from the stream, and the stream is dropped at the end of the block
BootMessage ==
    /\ boot.pc = "message"
    /\ boot.stream # <<>> \/ ~boot.open
    /\ IF boot.stream = <<>>
       THEN /\ boot' = BootRetry("end")
            /\ UNCHANGED initial_config
       ELSE LET snapshot == Head(boot.stream)
            IN  IF BootAccepts(snapshot)
                THEN /\ boot' = [boot EXCEPT !.pc = "returned",
                                             !.open = FALSE, !.stream = <<>>]
                     /\ initial_config' = snapshot
                ELSE /\ boot' = BootRetry("empty")
                     /\ UNCHANGED initial_config
    /\ UNCHANGED <<config, modules, req, updater, stores, latest, feed>>
    /\ UNCHANGED plugVars

\* tokio::time::sleep(2 s) returns; next turn of the loop
BootWake ==
    /\ boot.pc = "sleep"
    /\ boot' = [boot EXCEPT !.pc = "connect", !.cause = "none"]
    /\ UNCHANGED <<config, modules, req, updater, stores, latest,
                   initial_config, feed>>
    /\ UNCHANGED plugVars

\* ArcSwap::from_pointee(initial_config.clone())
BootCreateStore ==
    /\ boot.pc = "returned"
    /\ config' = initial_config
    /\ latest' = initial_config
    /\ boot' = [boot EXCEPT !.pc = "store"]
    /\ UNCHANGED <<modules, req, updater, stores, initial_config, feed>>
    /\ UNCHANGED plugVars

\* the listeners of initial_config are added to the proxy service
BootListeners ==
    /\ boot.pc = "store"
    /\ boot' = [boot EXCEPT !.pc = "listeners"]
    /\ UNCHANGED <<config, modules, req, updater, stores, latest,
                   initial_config, feed>>
    /\ UNCHANGED plugVars

\* std::thread::spawn of the updater; server.run_forever()
BootRun ==
    /\ boot.pc = "listeners"
    /\ boot' = BootAt("serving")
    /\ updater' = "connect"
    /\ UNCHANGED <<config, modules, req, stores, latest, initial_config,
                   feed>>
    /\ UNCHANGED plugVars

\* main() is entered: nothing fetched, no store, no updater thread
InitBoot ==
    /\ boot = BootAt("connect")
    /\ initial_config = 0
    /\ config = 0
    /\ latest = 0
    /\ modules = {}
    /\ req = [r \in Reqs |-> FreshReq]
    /\ updater = "unspawned"
    /\ stores = 0
    /\ feed = NoFeed
    /\ gm = NoCalls
    /\ vm = NoInvs
    /\ hc = NoHostCall
    /\ bpf = NoBpf

NextBoot ==
    \/ BootConnect
    \/ BootHandshake
    \/ \E s \in BootFeed : CpPush(s)
    \/ CpClose
    \/ CpAbort
    \/ BootMessage
    \/ BootWake
    \/ BootCreateStore
    \/ BootListeners
    \/ BootRun
    \/ \E r \in Reqs : RequestFilter(r)
    \/ \E r \in Reqs : RunNextPlugin(r)
    \/ \E r \in Reqs : UpstreamPeer(r)

\* main() from its entry, with no assumption on scheduling
SpecBoot == InitBoot /\ [][NextBoot]_vars

\* the tokio runtime that block_on drives polls the loop's future whenever
\* it can make progress, and main's straight-line code after it runs on
BootStep ==
    \/ BootConnect
    \/ BootHandshake
    \/ BootMessage
    \/ BootWake
    \/ BootCreateStore
    \/ BootListeners
    \/ BootRun

SpecBootFair == SpecBoot /\ WF_vars(BootStep)

(***************************************************************************)
(* The state when the proxy starts serving: bootstrap returned a snapshot  *)
(* with listeners, the store holds it, the updater thread is spawned.      *)
(***************************************************************************)
Init ==
    /\ initial_config \in {s \in SnapIds : Catalog[s].listeners # <<>>}
    /\ config = initial_config
    /\ latest = initial_config
    /\ modules = {}
    /\ req = [r \in Reqs |-> FreshReq]
    /\ updater = "connect"
    /\ stores = 0
    /\ boot = BootAt("serving")
    /\ feed = NoFeed
    /\ gm = NoCalls
    /\ vm = NoInvs
    /\ hc = NoHostCall
    /\ bpf = NoBpf

Next ==
    \/ \E r \in Reqs : RequestFilter(r)
    \/ \E r \in Reqs : RunNextPlugin(r)
    \/ \E r \in Reqs : UpstreamPeer(r)
    \/ UpdaterConnect
    \/ UpdaterHandshake
    \/ \E s \in SnapIds : UpdaterStore(s)
    \/ UpdaterStreamEnd
    \/ UpdaterWake

Spec == Init /\ [][Next]_vars

(***************************************************************************)
(* get_module called from several worker threads, one lock section at a    *)
(* time.  A Module is named by the thread whose Module::from_file call     *)
(* made it: two calls of from_file give two Modules, clone() gives the     *)
(* same one.                                                               *)
(***************************************************************************)
\* get_module(path) is entered
GetModuleCall(t, path) ==
    /\ gm.call[t].pc = "idle"
    /\ gm' = [gm EXCEPT !.call[t] = [NoCall EXCEPT !.pc = "read",
                                                   !.path = path]]
    /\ UNCHANGED <<config, modules, req, updater, stores, latest,
                   initial_config, boot, feed, vm, hc, bpf>>

\* the read-lock block: cache.get(path), return Ok(m.clone()) on a hit
GetModuleRead(t) ==
    /\ gm.call[t].pc = "read"
    /\ LET path == gm.call[t].path
       IN  IF gm.cache[path] # 0
           THEN gm' = [gm EXCEPT !.call[t] = NoCall,
                                 !.returned[path] = @ \cup {gm.cache[path]}]
           ELSE gm' = [gm EXCEPT !.call[t].pc = "exists"]
    /\ UNCHANGED <<config, modules, req, updater, stores, latest,
                   initial_config, boot, feed, vm, hc, bpf>>

\* Path::new(path).exists()
GetModuleExists(t) ==
    /\ gm.call[t].pc = "exists"
    /\ LET path == gm.call[t].path
       IN  IF Files[path] = "absent"
           THEN gm' = [gm EXCEPT !.call[t] = NoCall]
           ELSE gm' = [gm EXCEPT !.call[t].pc = "from_file"]
    /\ UNCHANGED <<config, modules, req, updater, stores, latest,
                   initial_config, boot, feed, vm, hc, bpf>>

\* Module::from_file(&self.engine, path)?
GetModuleFromFile(t) ==
    /\ gm.call[t].pc = "from_file"
    /\ LET path == gm.call[t].path
       IN  IF Files[path] = "corrupt"
           THEN gm' = [gm EXCEPT !.call[t] = NoCall]
           ELSE gm' = [gm EXCEPT !.call[t].pc = "write",
                                 !.call[t].module = t]
    /\ UNCHANGED <<config, modules, req, updater, stores, latest,
                   initial_config, boot, feed, vm, hc, bpf>>

\* the write-lock block: cache.insert(path, module.clone())
GetModuleInsert(t) ==
    /\ gm.call[t].pc = "write"
    /\ gm' = [gm EXCEPT !.cache[gm.call[t].path] = gm.call[t].module,
                        !.call[t].pc = "ok"]
    /\ UNCHANGED <<config, modules, req, updater, stores, latest,
                   initial_config, boot, feed, vm, hc, bpf>>

\* Ok(module)
GetModuleReturn(t) ==
    /\ gm.call[t].pc = "ok"
    /\ gm' = [gm EXCEPT !.call[t] = NoCall,
                        !.returned[gm.call[t].path] =
                            @ \cup {gm.call[t].module}]
    /\ UNCHANGED <<config, modules, req, updater, stores, latest,
                   initial_config, boot, feed, vm, hc, bpf>>

NextCache ==
    \/ \E t \in Callers, path \in CachePaths : GetModuleCall(t, path)
    \/ \E t \in Callers : GetModuleRead(t)
    \/ \E t \in Callers : GetModuleExists(t)
    \/ \E t \in Callers : GetModuleFromFile(t)
    \/ \E t \in Callers : GetModuleInsert(t)
    \/ \E t \in Callers : GetModuleReturn(t)

\* the plugin runtime of a serving proxy, its worker threads in get_module
SpecCache == Init /\ [][NextCache]_vars

(***************************************************************************)
(* run_plugin called from several requests.                                *)
(***************************************************************************)
\* an instance starting on the linear memory the last instance left
ReusedMemory(image, left) == IF left = <<>> THEN image ELSE left

\* linker.instantiate on a new Store: the linear memory is the module's
\* data segment
FreshMemory(image, left) == image

\* run_plugin up to instantiate: WasmContext{headers, ..}, Store::new,
\* linker.instantiate
InvStart(i, wire) ==
    /\ vm.run[i].pc = "idle"
    /\ vm' = [vm EXCEPT !.run[i] =
                 [NoInv EXCEPT !.pc = "check", !.wire = wire,
                               !.headers = BuildHeaders(wire),
                               !.mem = FreshMemory(MarkImage, vm.left)]]
    /\ UNCHANGED <<config, modules, req, updater, stores, latest,
                   initial_config, boot, feed, gm, hc, bpf>>

\* on_request: the mark is read
InvCheck(i) ==
    /\ vm.run[i].pc = "check"
    /\ IF vm.run[i].mem[2] # "0"
       THEN vm' = [vm EXCEPT !.run[i].pc = "return", !.run[i].result = 1]
       ELSE vm' = [vm EXCEPT !.run[i].pc = "host"]
    /\ UNCHANGED <<config, modules, req, updater, stores, latest,
                   initial_config, boot, feed, gm, hc, bpf>>

\* on_request: agw_get_header("x") into the buffer, the mark is set
InvHost(i) ==
    /\ vm.run[i].pc = "host"
    /\ LET r == AgwGetHeader(vm.run[i].headers, TRUE, vm.run[i].mem,
                             0, 1, 2, 3)
           buf == IF r.ret > 0 THEN SubSeq(r.mem, 3, 2 + r.ret) ELSE <<>>
       IN  vm' = [vm EXCEPT !.run[i].pc = "return",
                              !.run[i].got = buf,
                              !.run[i].mem = [r.mem EXCEPT ![2] = "1"],
                              !.run[i].result = 0]
    /\ UNCHANGED <<config, modules, req, updater, stores, latest,
                   initial_config, boot, feed, gm, hc, bpf>>

\* Ok(result == 0); `store` goes out of scope
InvReturn(i) ==
    /\ vm.run[i].pc = "return"
    /\ vm' = [vm EXCEPT !.run[i].pc = "done",
                          !.run[i].verdict =
                              IF vm.run[i].result = 0 THEN "allow"
                              ELSE "deny",
                          !.run[i].mem = <<>>,
                          !.left = vm.run[i].mem]
    /\ UNCHANGED <<config, modules, req, updater, stores, latest,
                   initial_config, boot, feed, gm, hc, bpf>>

NextStore ==
    \/ \E i \in Invs, wire \in InvWires : InvStart(i, wire)
    \/ \E i \in Invs : InvCheck(i)
    \/ \E i \in Invs : InvHost(i)
    \/ \E i \in Invs : InvReturn(i)

\* the plugin runtime of a serving proxy, its requests in run_plugin
SpecStore == Init /\ [][NextStore]_vars

(***************************************************************************)
(* One call of a host function from a plugin, on every combination of      *)
(* request, plugin memory and arguments below.                             *)
(***************************************************************************)
\* the requests whose headers the plugin asks for
HostWires ==
    { <<>>,
      <<Header(<<"U", "A">>, <<"c", "u">>)>>,
      <<Header(<<"u", "a">>, <<"a">>),
        Header(<<"x">>, <<"c">>),
        Header(<<"U", "a">>, <<"b", "b", "b">>)>>,
      <<Header(<<"x">>, <<"~", "a">>)>>,
      <<Header(<<"X">>, <<>>)>> }

\* the bytes the plugin wrote at offset 0 as the header name
AskedNames ==
    { <<"u", "a">>, <<"U", "A">>, <<"u", "A">>, <<"x">>, <<"X">>,
      <<"n", "o">>, <<"~">> }

\* the linear memory at the call: the name, then zero bytes
MemoryWith(asked) ==
    [k \in 1..MemSize |-> IF k <= Len(asked) THEN asked[k] ELSE "0"]

\* the plugin calls agw_get_header(0, name_len, value_ptr, value_max_len)
HostGetHeader(wire, asked, exported, name_len, value_ptr, value_max_len) ==
    /\ hc.phase = "idle"
    /\ LET mem0 == MemoryWith(asked)
           headers == BuildHeaders(wire)
           r == AgwGetHeader(headers, exported, mem0, 0, name_len,
                             value_ptr, value_max_len)
       IN  hc' = [phase |-> "get_header", wire |-> wire, asked |-> asked,
                  exported |-> exported, name_len |-> name_len,
                  value_ptr |-> value_ptr, value_max_len |-> value_max_len,
                  mem0 |-> mem0, ret |-> r.ret, mem |-> r.mem,
                  panic |-> r.panic]
    /\ UNCHANGED <<config, modules, req, updater, stores, latest,
                   initial_config, boot, feed, gm, vm, bpf>>

\* the commands the plugin wrote at offset 1: ["G"], [], and bytes that
\* are no JSON
RedisCmds ==
    { <<"[", "\"", "G", "\"", "]">>, <<"[", "]">>, <<"G">> }

\* the linear memory at a key-value or SQL call: the pool name at offset 0,
\* the command at offset 1, zero bytes after it
MemoryOf(asked, cmd) ==
    [k \in 1..MemSize |->
        IF k = 1 THEN asked
        ELSE IF k - 1 <= Len(cmd) THEN cmd[k - 1] ELSE "0"]

\* what the key-value backend may do with a command
RedisOutcomes ==
    { NoConn, Failed(<<"x">>), Replied(<<"1">>), Replied(<<>>),
      Replied(<<"E", "R", "R", ":", " ", "x">>) }

\* the call made before this one, if any
NoPrev == [phase |-> "idle"]

\* the plugin calls agw_redis_command(0, name_len, 1, cmd_len, out_ptr,
\* out_max)
RedisCall(redis, asked, cmd, exported, name_len, cmd_len, out_ptr, out_max, backend, prev) ==
    LET mem0 == MemoryOf(asked, cmd)
        r == AgwRedisCommand(redis, exported, mem0, 0, name_len, 1, cmd_len,
                             out_ptr, out_max, backend)
    IN  [phase |-> "redis", redis |-> redis, asked |-> asked, cmd |-> cmd,
         exported |-> exported, name_len |-> name_len, cmd_len |-> cmd_len,
         out_ptr |-> out_ptr, out_max |-> out_max, backend |-> backend,
         mem0 |-> mem0, ret |-> r.ret, mem |-> r.mem, panic |-> r.panic,
         prev |-> prev]

HostRedisCommand(redis, asked, cmd, exported, name_len, cmd_len, out_ptr, out_max, backend) ==
    /\ hc.phase = "idle"
    /\ hc' = RedisCall(redis, asked, cmd, exported, name_len, cmd_len,
                       out_ptr, out_max, backend, NoPrev)
    /\ UNCHANGED <<config, modules, req, updater, stores, latest,
                   initial_config, boot, feed, gm, vm, bpf>>

\* the plugin makes the same call once more
HostRedisAgain(backend) ==
    /\ hc.phase = "redis"
    /\ hc.prev = NoPrev
    /\ ~hc.panic
    /\ hc' = RedisCall(hc.redis, hc.asked, hc.cmd, hc.exported, hc.name_len,
                       hc.cmd_len, hc.out_ptr, hc.out_max, backend,
                       [hc EXCEPT !.prev = NoPrev])
    /\ UNCHANGED <<config, modules, req, updater, stores, latest,
                   initial_config, boot, feed, gm, vm, bpf>>

\* what the SQL backend may do with a query
DbOutcomes == { Failed(<<"x">>), NotText, Replied(<<>>), Replied(<<"a">>) }

\* the plugin calls agw_db_query(0, name_len, 1, sql_len, out_ptr, out_max)
HostDbQuery(postgres, mysql, asked, exported, name_len, sql_len, out_ptr, out_max, backend) ==
    /\ hc.phase = "idle"
    /\ LET mem0 == MemoryOf(asked, <<"S">>)
           r == AgwDbQuery(postgres, mysql, exported, mem0, 0, name_len, 1,
                           sql_len, out_ptr, out_max, backend)
       IN  hc' = [phase |-> "db", postgres |-> postgres, mysql |-> mysql,
                  asked |-> asked, exported |-> exported,
                  name_len |-> name_len, sql_len |-> sql_len,
                  out_ptr |-> out_ptr, out_max |-> out_max,
                  backend |-> backend, mem0 |-> mem0, ret |-> r.ret,
                  mem |-> r.mem, panic |-> r.panic]
    /\ UNCHANGED <<config, modules, req, updater, stores, latest,
                   initial_config, boot, feed, gm, vm, bpf>>

\* a plugin that has made no host call yet makes one of the calls below
GetHeaderCall ==
    /\ hc.phase = "idle"
    /\ \E wire \in HostWires, asked \in AskedNames, exported \in BOOLEAN,
          name_len \in {-1, 1, 2, MemSize + 1},
          value_ptr \in {-1, 2, 3, MemSize - 2, MemSize},
          value_max_len \in -1..3 :
            HostGetHeader(wire, asked, exported, name_len, value_ptr,
                          value_max_len)

RedisCommandCall ==
    /\ hc.phase = "idle"
    /\ \E redis \in {{}, {<<"d">>}}, asked \in {"d", "n", "~"},
          cmd \in RedisCmds, exported \in BOOLEAN,
          name_len \in {-1, 1}, cmd_len \in {-1, 0, MemSize},
          out_ptr \in {-1, MemSize - 8}, out_max \in {-1, 2, 8},
          backend \in RedisOutcomes :
            HostRedisCommand(redis, asked, cmd, exported, name_len,
                             IF cmd_len = 0 THEN Len(cmd) ELSE cmd_len,
                             out_ptr, out_max, backend)

RedisAgainCall ==
    /\ hc.phase = "redis"
    /\ \E backend \in RedisOutcomes : HostRedisAgain(backend)

DbQueryCall ==
    /\ hc.phase = "idle"
    /\ \E postgres \in {{}, {<<"p">>}}, mysql \in {{}, {<<"m">>}},
          asked \in {"p", "m", "n"}, exported \in BOOLEAN,
          name_len \in {-1, 1}, sql_len \in {-1, 1, MemSize},
          out_ptr \in {-1, MemSize - 8}, out_max \in {-1, 1, 8},
          backend \in DbOutcomes :
            HostDbQuery(postgres, mysql, asked, exported, name_len, sql_len,
                        out_ptr, out_max, backend)

NextHost ==
    \/ GetHeaderCall
    \/ RedisCommandCall
    \/ RedisAgainCall
    \/ DbQueryCall

\* a serving proxy whose bootstrap snapshot is the first of the catalog
InitHost == Init /\ initial_config = 1

\* a plugin instance of a serving proxy calling the host
SpecHost == InitHost /\ [][NextHost]_vars

(***************************************************************************)
(* main() between the bootstrap loop and run_forever, listener by          *)
(* listener: certificate files, add_tls, add_tcp, the fallback.            *)
(***************************************************************************)

\* listener.tls: None, or Some of the two PEM texts
NoTls == <<>>
SomeTls(cert, key) == <<[cert_pem |-> cert, key_pem |-> key]>>

ListenerCfg(n, a, p, tls) == [name |-> n, address |-> a, port |-> p, tls |-> tls]

\* the listeners a snapshot may list; two TLS listeners share a name
ListenerPool ==
    { ListenerCfg("http", "0.0.0.0", 8080, NoTls),
      ListenerCfg("admin", "127.0.0.1", 9000, NoTls),
      ListenerCfg("web", "0.0.0.0", 8443, SomeTls("c1", "k1")),
      ListenerCfg("web", "0.0.0.0", 9443, SomeTls("c2", "k2")) }

\* initial_config.listeners as the bootstrap loop returns it: not empty
ListenerLists == UNION { [1..n -> ListenerPool] : n \in 1..MaxListeners }

\* format!("{}:{}", listener.address, listener.port)
AddrOf(l) == <<l.address, l.port>>

\* format!("/tmp/{}_cert.pem", listener.name) and its _key.pem
CertPath(l) == <<"/tmp/", l.name, "_cert.pem">>
KeyPath(l) == <<"/tmp/", l.name, "_key.pem">>

\* what add_tcp and add_tls leave in the proxy service
TcpEndpoint(addr) == [kind |-> "tcp", addr |-> addr, cert |-> "", key |-> ""]
TlsEndpoint(addr, cert, key) == [kind |-> "tls", addr |-> addr, cert |-> cert, key |-> key]

\* my_proxy.add_tcp("0.0.0.0:6188")
FallbackEndpoint == TcpEndpoint(<<"0.0.0.0", 6188>>)

\* main() at listener setup: next: index of the for loop; installed: the
\* endpoints added so far; files: /tmp; tried: how each iteration ended
ListenAt(ls) ==
    [pc |-> "fallback", listeners |-> ls, next |-> 1, installed |-> <<>>, files |-> {}, tried |-> <<>>]

\* an iteration that ends at the first failure ends the loop
SetupListenerStops(b, cert_ok, key_ok, tls_ok) ==
    LET l == b.listeners[b.next]
    IN  IF l.tls = NoTls \/ (cert_ok /\ key_ok /\ tls_ok)
        THEN [b EXCEPT !.next = @ + 1, !.tried = Append(@, "added"),
                       !.installed = Append(@, IF l.tls = NoTls THEN TcpEndpoint(AddrOf(l))
                                               ELSE TlsEndpoint(AddrOf(l), l.tls[1].cert_pem, l.tls[1].key_pem))]
        ELSE [b EXCEPT !.next = Len(b.listeners) + 1, !.tried = Append(@, "tls_failed")]

\* one iteration of `for listener in &initial_config.listeners`; cert_ok,
\* key_ok: the two std::fs::write succeed; tls_ok: add_tls succeeds, loading
\* the two files
SetupListener(b, cert_ok, key_ok, tls_ok) ==
    LET l == b.listeners[b.next]
        files1 == MapInsert(b.files, CertPath(l), l.tls[1].cert_pem)
        files2 == MapInsert(files1, KeyPath(l), l.tls[1].key_pem)
    IN  IF l.tls = NoTls
        THEN [b EXCEPT !.next = @ + 1, !.tried = Append(@, "added"),
                       !.installed = Append(@, TcpEndpoint(AddrOf(l)))]
        ELSE IF ~cert_ok
        THEN [b EXCEPT !.next = @ + 1, !.tried = Append(@, "cert_failed")]
        ELSE IF ~key_ok
        THEN [b EXCEPT !.next = @ + 1, !.tried = Append(@, "key_failed"), !.files = files1]
        ELSE IF ~tls_ok
        THEN [b EXCEPT !.next = @ + 1, !.tried = Append(@, "tls_failed"), !.files = files2]
        ELSE [b EXCEPT !.next = @ + 1, !.tried = Append(@, "added"), !.files = files2,
                       !.installed = Append(@, TlsEndpoint(AddrOf(l), MapGet(files2, CertPath(l)), MapGet(files2, KeyPath(l))))]

\* the bootstrap loop returns a snapshot with the listeners ls
ListenReturned ==
    /\ boot.pc = "connect"
    /\ \E ls \in ListenerLists : boot' = ListenAt(ls)
    /\ UNCHANGED <<config, modules, req, updater, stores, latest, initial_config, feed>>
    /\ UNCHANGED plugVars

\* if initial_config.listeners.is_empty() { add_tcp("0.0.0.0:6188") }
ListenFallback ==
    /\ boot.pc = "fallback"
    /\ boot' = [boot EXCEPT !.pc = "loop",
                            !.installed = IF boot.listeners = <<>> THEN <<FallbackEndpoint>> ELSE <<>>]
    /\ UNCHANGED <<config, modules, req, updater, stores, latest, initial_config, feed>>
    /\ UNCHANGED plugVars

ListenSetup ==
    /\ boot.pc = "loop"
    /\ boot.next <= Len(boot.listeners)
    /\ \E cert_ok \in BOOLEAN, key_ok \in BOOLEAN, tls_ok \in BOOLEAN :
          boot' = SetupListener(boot, cert_ok, key_ok, tls_ok)
    /\ UNCHANGED <<config, modules, req, updater, stores, latest, initial_config, feed>>
    /\ UNCHANGED plugVars

\* std::thread::spawn of the updater
ListenSpawn ==
    /\ boot.pc = "loop"
    /\ boot.next > Len(boot.listeners)
    /\ boot' = [boot EXCEPT !.pc = "spawned"]
    /\ updater' = "connect"
    /\ UNCHANGED <<config, modules, req, stores, latest, initial_config, feed>>
    /\ UNCHANGED plugVars

\* server.add_service(my_proxy); server.run_forever()
ListenRun ==
    /\ boot.pc = "spawned"
    /\ boot' = [boot EXCEPT !.pc = "run_forever"]
    /\ UNCHANGED <<config, modules, req, updater, stores, latest, initial_config, feed>>
    /\ UNCHANGED plugVars

\* the steps of main() after the bootstrap loop
ListenStep ==
    \/ ListenFallback
    \/ ListenSetup
    \/ ListenSpawn
    \/ ListenRun

NextListen ==
    \/ ListenReturned
    \/ ListenStep

SpecListen == InitBoot /\ [][NextListen]_vars

\* main() runs on: its thread is never left waiting between these steps
SpecListenFair == SpecListen /\ WF_vars(ListenStep)

(***************************************************************************)
(* The user-agent plugin (plugins/deny-all) on the route of a request.     *)
(***************************************************************************)

\* let name = "user-agent"
UaName == <<"u", "s", "e", "r", "-", "a", "g", "e", "n", "t">>

\* let mut value_buf = [0u8; 128]
UaBufLen == 128

Curl == <<"c", "u", "r", "l">>

\* str::contains
Contains(s, pat) ==
    \E k \in 0..(Len(s) - Len(pat)) : SubSeq(s, k + 1, k + Len(pat)) = pat

\* n bytes of filler
Pad(n) == [k \in 1..n |-> "a"]

\* the plugin's linear memory at the call: name at offset 0, value_buf
\* after it
UaMemory == UaName \o [k \in 1..UaBufLen |-> "0"]

\* on_request of the user-agent plugin: 1 denies, 0 allows
DenyAllOnRequest(headers) ==
    LET r == AgwGetHeader(headers, TRUE, UaMemory, 0, Len(UaName),
                          Len(UaName), UaBufLen)
        value == SubSeq(r.mem, Len(UaName) + 1, Len(UaName) + r.ret)
    IN  IF r.ret > 0 /\ FromUtf8Ok(value) /\ Contains(value, Curl)
        THEN 1 ELSE 0

\* the User-Agent header as clients spell it
UaSpellings ==
    { UaName,
      <<"U", "s", "e", "r", "-", "A", "g", "e", "n", "t">>,
      <<"U", "S", "E", "R", "-", "A", "G", "E", "N", "T">> }

\* the product token of a User-Agent value
UaTokens ==
    { Curl, <<"c", "u", "r", "L">>, <<"w", "g", "e", "t">>,
      <<"c", "u", "r", "l", "~">>, <<>> }

\* the bytes before the token: none, one, and as many as make a value of
\* value_buf's length and of one byte more
UaLeads == {0, 1, UaBufLen - Len(Curl), UaBufLen - Len(Curl) + 1}

\* the headers of a request: one User-Agent header and, after it, possibly
\* a header of another name
UaWires ==
    { <<Header(n, Pad(lead) \o token)>> \o rest :
        n \in UaSpellings, lead \in UaLeads, token \in UaTokens,
        rest \in { <<>>, <<Header(<<"x">>, Curl)>> } }

\* a request arrives on the route guarded by the plugin
UaArrive(wire) ==
    /\ hc.phase = "idle"
    /\ hc' = [phase |-> "ua_request", wire |-> wire]
    /\ UNCHANGED <<config, modules, req, updater, stores, latest,
                   initial_config, boot, feed, gm, vm, bpf>>

\* request_filter: the header map, run_plugin, 403 on a deny
UaRequestFilter ==
    /\ hc.phase = "ua_request"
    /\ LET headers == BuildHeaders(hc.wire)
           allow == DenyAllOnRequest(headers) = 0
       IN  hc' = IF allow
                 THEN [phase |-> "ua_forward", wire |-> hc.wire,
                       resp |-> <<>>, handled |-> "false"]
                 ELSE [phase |-> "ua_done", wire |-> hc.wire,
                       resp |-> <<403>>, handled |-> "true"]
    /\ UNCHANGED <<config, modules, req, updater, stores, latest,
                   initial_config, boot, feed, gm, vm, bpf>>

\* upstream_peer takes the request request_filter passed on
UaUpstreamPeer ==
    /\ hc.phase = "ua_forward"
    /\ hc' = [hc EXCEPT !.phase = "ua_done"]
    /\ UNCHANGED <<config, modules, req, updater, stores, latest,
                   initial_config, boot, feed, gm, vm, bpf>>

UaArriveCall ==
    /\ hc.phase = "idle"
    /\ \E wire \in UaWires : UaArrive(wire)

NextUa ==
    \/ UaArriveCall
    \/ UaRequestFilter
    \/ UaUpstreamPeer

\* a serving proxy with the user-agent plugin on the matched route
SpecUa == InitHost /\ [][NextUa]_vars

(***************************************************************************)
(* The rate plugin (plugins/redis-demo) on the route of the requests of    *)
(* one user, with the key-value store its INCR commands reach.             *)
(***************************************************************************)

\* get_header("x-user-id")
RateName == <<"x", "-", "u", "s", "e", "r", "-", "i", "d">>

\* let mut buf = [0u8; 128] of get_header
RateBufLen == 128

\* let mut buf = [0u8; 1024] of redis_command
RateOutLen == 1024

\* if count > 5
RateLimit == 5

\* let redis_name = "default"
PoolDefault == <<"d", "e", "f", "a", "u", "l", "t">>

Incr == <<"I", "N", "C", "R">>

Zeros(n) == [k \in 1..n |-> "0"]

DecDigits == <<"0", "1", "2", "3", "4", "5", "6", "7", "8", "9">>

\* i64::to_string of a count
RECURSIVE ToDecimal(_)
ToDecimal(n) ==
    IF n < 0 THEN <<"-">> \o ToDecimal(-n)
    ELSE IF n < 10 THEN <<DecDigits[n + 1]>>
    ELSE ToDecimal(n \div 10) \o <<DecDigits[(n % 10) + 1]>>

\* str::trim on the space
RECURSIVE Trim(_)
Trim(s) ==
    IF s = <<>> THEN s
    ELSE IF Head(s) = " " THEN Trim(Tail(s))
    ELSE IF s[Len(s)] = " " THEN Trim(SubSeq(s, 1, Len(s) - 1))
    ELSE s

I32Max == 2147483647

\* the digits of s from position j on, added to acc; an error on a byte
\* that is no digit and above i32::MAX
RECURSIVE ParseDigits(_, _, _)
ParseDigits(s, j, acc) ==
    IF j > Len(s) THEN [ok |-> TRUE, value |-> acc]
    ELSE IF \A d \in 1..10 : DecDigits[d] # s[j] THEN [ok |-> FALSE, value |-> 0]
    ELSE LET d == (CHOOSE k \in 1..10 : DecDigits[k] = s[j]) - 1
         IN  IF acc > (I32Max - d) \div 10 THEN [ok |-> FALSE, value |-> 0]
             ELSE ParseDigits(s, j + 1, acc * 10 + d)

\* str::parse::<i32>: an optional sign and at least one digit
ParseI32(s) ==
    LET signed == s # <<>> /\ s[1] \in {"+", "-"}
        from == IF signed THEN 2 ELSE 1
        p == ParseDigits(s, from, 0)
    IN  IF from > Len(s) \/ ~p.ok THEN [ok |-> FALSE, value |-> 0]
        ELSE [ok |-> TRUE, value |-> IF signed /\ s[1] = "-" THEN -p.value ELSE p.value]

\* format!("[\"INCR\", \"{}\"]", user_id)
RateCmdJson(user_id) ==
    <<"[", "\"">> \o Incr \o <<"\"", ",", " ", "\"">> \o user_id \o <<"\"", "]">>

\* what the store answers to the command args: INCR adds one to the key's
\* count, absent counting as zero, and replies the new count, which
\* RedisResult<String> holds as its decimal text
RedisExec(store, args) ==
    IF Len(args) = 2 /\ args[1] = Incr
    THEN LET n == (IF MapHas(store, args[2]) THEN MapGet(store, args[2]) ELSE 0) + 1
         IN  [store |-> MapInsert(store, args[2], n), reply |-> Replied(ToDecimal(n)), count |-> n]
    ELSE [store |-> store, reply |-> Failed(<<"x">>), count |-> 0]

\* on_request of the rate plugin run against the store: ret 1 denies, 0
\* allows; store: the store after the run; count: the INCR result of the
\* run, 0 if no INCR was executed
RateOnRequest(headers, store) ==
    LET buf_at == Len(RateName)
        mem0 == RateName \o Zeros(RateBufLen) \o PoolDefault
        g == AgwGetHeader(headers, TRUE, mem0, 0, Len(RateName), buf_at, RateBufLen)
        user_id == IF g.ret > 0 THEN SubSeq(g.mem, buf_at + 1, buf_at + g.ret) ELSE <<>>
        cmd_json == RateCmdJson(user_id)
        name_at == buf_at + RateBufLen
        cmd_at == Len(mem0)
        out_at == cmd_at + Len(cmd_json)
        mem1 == g.mem \o cmd_json \o Zeros(RateOutLen)
        parsed == ParseArgs(cmd_json)
        exec == RedisExec(store, parsed.args)
        r == AgwRedisCommand({PoolDefault}, TRUE, mem1, name_at, Len(PoolDefault), cmd_at, Len(cmd_json), out_at, RateOutLen, exec.reply)
        executed == ~r.panic /\ r.ret \notin {-1, -2, -3, -4, -5}
        count_str == SubSeq(r.mem, out_at + 1, out_at + r.ret)
        count == ParseI32(Trim(count_str))
    IN  IF user_id = <<>> THEN [ret |-> 0, store |-> store, count |-> 0]
        ELSE [ret |-> IF r.ret >= 0 /\ count.ok /\ count.value > RateLimit THEN 1 ELSE 0,
              store |-> IF executed THEN exec.store ELSE store,
              count |-> IF executed THEN exec.count ELSE 0]

\* the x-user-id values of the users of this model: a plain one, one with a
\* double quote, one of a byte more than get_header's buffer
RateUsers == { <<"u">>, <<"u", "\"">>, Pad(RateBufLen + 1) }

RateReqs == 1..NRate

NoRateReq == [pc |-> "idle", resp |-> <<>>, handled |-> "", count |-> 0]

\* the requests of this run carry x-user-id u; the store has no key
RateStart(u) ==
    /\ hc.phase = "idle"
    /\ hc' = [phase |-> "rate", user |-> u, store |-> {}, rq |-> [i \in RateReqs |-> NoRateReq]]
    /\ UNCHANGED <<config, modules, req, updater, stores, latest, initial_config, boot, feed, gm, vm, bpf>>

RateStartCall ==
    /\ hc.phase = "idle"
    /\ \E u \in RateUsers : RateStart(u)

\* request i arrives on the route guarded by the plugin
RateArrive(i) ==
    /\ hc.phase = "rate"
    /\ hc.rq[i].pc = "idle"
    /\ hc' = [hc EXCEPT !.rq[i].pc = "filter"]
    /\ UNCHANGED <<config, modules, req, updater, stores, latest, initial_config, boot, feed, gm, vm, bpf>>

\* request_filter of request i: the header map, run_plugin with the INCR
\* the store executes, 403 on a deny
RateRequestFilter(i) ==
    /\ hc.phase = "rate"
    /\ hc.rq[i].pc = "filter"
    /\ LET p == RateOnRequest(BuildHeaders(<<Header(RateName, hc.user)>>), hc.store)
       IN  hc' = [hc EXCEPT !.store = p.store,
                            !.rq[i] = IF p.ret = 0
                                      THEN [pc |-> "done", resp |-> <<>>, handled |-> "false", count |-> p.count]
                                      ELSE [pc |-> "done", resp |-> <<403>>, handled |-> "true", count |-> p.count]]
    /\ UNCHANGED <<config, modules, req, updater, stores, latest, initial_config, boot, feed, gm, vm, bpf>>

NextRate ==
    \/ RateStartCall
    \/ \E i \in RateReqs : RateArrive(i)
    \/ \E i \in RateReqs : RateRequestFilter(i)

\* a serving proxy with the rate plugin on the matched route
SpecRate == InitHost /\ [][NextRate]_vars

(***************************************************************************)
(* The two kernel programs (ebpf-agent/ebpf) on one TCP connection between  *)
(* co-located peers: client socket "A", server socket "B".  The kernel is   *)
(* the environment: it runs bpf_sockmap when a socket is established and    *)
(* bpf_redirect on a sendmsg of a socket that is in SOCK_MAP, carries       *)
(* passed messages through the TCP stack and hands the receiver the         *)
(* redirected ones from its ingress queue.                                  *)
(***************************************************************************)

\* a u32 of a context as its two 16-bit halves; `as u16` keeps the low one
U32(hi, lo) == <<hi, lo>>
AsU16(w) == w[2]

\* a 16-bit port with its two bytes swapped
Swap16(p) == (p % 256) * 256 + (p \div 256)

\* remote_port as bpf_sock_ops and sk_msg_md give it: the socket's
\* big-endian 16-bit destination port loaded as a number, moved to the upper
\* half on a little-endian target
CtxRemotePort(le, p) == IF le THEN U32(Swap16(p), 0) ELSE U32(0, p)

\* local_port as both contexts give it: host byte order
CtxLocalPort(p) == U32(0, p)

\* a socket of the connection: its own and its peer's address
Sock(lip, lport, rip, rport) == [local_ip4 |-> lip, local_port |-> lport, remote_ip4 |-> rip, remote_port |-> rport]

\* SockOpsContext of a callback with operation op on socket s
SockOpsCtx(le, op, s) ==
    [op |-> op, remote_ip4 |-> s.remote_ip4, local_ip4 |-> s.local_ip4,
     remote_port |-> CtxRemotePort(le, s.remote_port), local_port |-> CtxLocalPort(s.local_port)]

\* sk_msg_md of a sendmsg on socket s
SkMsgCtx(le, s) ==
    [remote_ip4 |-> s.remote_ip4, local_ip4 |-> s.local_ip4,
     remote_port |-> CtxRemotePort(le, s.remote_port), local_port |-> CtxLocalPort(s.local_port)]

PacketLog(src, dst, psrc, pdst) == [ipv4_src |-> src, ipv4_dst |-> dst, port_src |-> psrc, port_dst |-> pdst, len |-> 0]

\* the key try_bpf_sockmap builds
SockmapKey(ctx) == PacketLog(ctx.remote_ip4, ctx.local_ip4, AsU16(ctx.remote_port), AsU16(ctx.local_port))

\* the key try_bpf_redirect builds
RedirectKey(msg) == PacketLog(msg.local_ip4, msg.remote_ip4, AsU16(msg.local_port), AsU16(msg.remote_port))

\* try_bpf_sockmap on socket id: the return value and SOCK_MAP after it;
\* update_ok: SOCK_MAP.update succeeds
TryBpfSockmap(ctx, id, map, update_ok) ==
    IF ctx.op # 4 /\ ctx.op # 5 THEN [ret |-> 0, map |-> map]
    ELSE IF ~update_ok THEN [ret |-> 1, map |-> map]
    ELSE [ret |-> 0, map |-> MapInsert(map, SockmapKey(ctx), id)]

\* bpf_msg_redirect_hash: on a hit the message's redirect target is the
\* socket found and the helper returns SK_PASS, on a miss no target and
\* SK_DROP
MsgRedirectHash(map, key) ==
    IF MapHas(map, key) THEN [ret |-> "SK_PASS", redir |-> <<MapGet(map, key)>>]
    ELSE [ret |-> "SK_DROP", redir |-> <<>>]

\* a redirector handing back what the helper returned
TryBpfRedirectHelperVerdict(msg, map) ==
    [verdict |-> MsgRedirectHash(map, RedirectKey(msg)).ret, redir |-> MsgRedirectHash(map, RedirectKey(msg)).redir]

\* try_bpf_redirect: the verdict and the redirect target left in the message
TryBpfRedirect(msg, map) ==
    [verdict |-> "SK_PASS", redir |-> MsgRedirectHash(map, RedirectKey(msg)).redir]

\* the connections of this model: ports whose two bytes differ
SockConns ==
    { [A |-> Sock(ipA, pA, ipB, pB), B |-> Sock(ipB, pB, ipA, pA)] :
        ipA \in {1}, ipB \in {1, 2}, pA \in {258}, pB \in {80, 8080} }

\* le: the target is little-endian; cb: the sockets whose established
\* callback has run; map: SOCK_MAP; sent: messages A has sent, numbered
\* from 1; wire: passed messages in the TCP stack; rcvq: B's receive queue;
\* ingress: B's ingress queue; read: what B's application has read; log: per
\* message whether the redirector ran, its verdict and its target
SockAt(le, conn) ==
    [pc |-> "sock", le |-> le, conn |-> conn, cb |-> {}, other |-> FALSE, map |-> {}, sent |-> 0,
     wire |-> <<>>, rcvq |-> <<>>, ingress |-> <<>>, read |-> <<>>, log |-> <<>>]

\* socket id is in SOCK_MAP, so its sendmsg runs the redirector and its
\* recvmsg looks at the ingress queue
InSockMap(id) == \E e \in bpf.map : e[2] = id

\* a connection between co-located peers starts under the loaded programs
SockStart ==
    /\ bpf.pc = "off"
    /\ \E le \in BOOLEAN, conn \in SockConns : bpf' = SockAt(le, conn)
    /\ UNCHANGED <<config, modules, req, updater, stores, latest, initial_config, boot, feed, gm, vm, hc>>

\* bpf_sockmap on the established callback of socket id: 5 on the client
\* when the handshake completes there, 4 on the server after it
SockEstablished(id, update_ok) ==
    /\ bpf.pc = "sock"
    /\ id \notin bpf.cb
    /\ id = "B" => "A" \in bpf.cb
    /\ LET op == IF id = "A" THEN 5 ELSE 4
           r == TryBpfSockmap(SockOpsCtx(bpf.le, op, bpf.conn[id]), id, bpf.map, update_ok)
       IN  bpf' = [bpf EXCEPT !.cb = @ \cup {id}, !.map = r.map]
    /\ UNCHANGED <<config, modules, req, updater, stores, latest, initial_config, boot, feed, gm, vm, hc>>

\* bpf_sockmap on a callback that is not an established one
SockOtherOp(id, op) ==
    /\ bpf.pc = "sock"
    /\ ~bpf.other
    /\ bpf' = [bpf EXCEPT !.other = TRUE,
                          !.map = TryBpfSockmap(SockOpsCtx(bpf.le, op, bpf.conn[id]), id, bpf.map, TRUE).map]
    /\ UNCHANGED <<config, modules, req, updater, stores, latest, initial_config, boot, feed, gm, vm, hc>>

\* sendmsg of the next message on A: the redirector runs if A is in
\* SOCK_MAP; a message with a target goes to the target's ingress queue, a
\* passed one into the TCP stack, a dropped one nowhere
SockSendmsg ==
    /\ bpf.pc = "sock"
    /\ "A" \in bpf.cb
    /\ bpf.sent < NMsg
    /\ LET n == bpf.sent + 1
           hooked == InSockMap("A")
           v == TryBpfRedirect(SkMsgCtx(bpf.le, bpf.conn["A"]), bpf.map)
       IN  bpf' = [bpf EXCEPT
                     !.sent = n,
                     !.log = Append(@, IF hooked THEN [ran |-> TRUE, verdict |-> v.verdict, redir |-> v.redir]
                                       ELSE [ran |-> FALSE, verdict |-> "SK_PASS", redir |-> <<>>]),
                     !.ingress = IF hooked /\ v.verdict = "SK_PASS" /\ v.redir = <<"B">> THEN Append(@, n) ELSE @,
                     !.wire = IF ~hooked \/ (v.verdict = "SK_PASS" /\ v.redir = <<>>) THEN Append(@, n) ELSE @]
    /\ UNCHANGED <<config, modules, req, updater, stores, latest, initial_config, boot, feed, gm, vm, hc>>

\* the TCP stack delivers the oldest passed message to B's receive queue
SockDeliver ==
    /\ bpf.pc = "sock"
    /\ "B" \in bpf.cb
    /\ bpf.wire # <<>>
    /\ bpf' = [bpf EXCEPT !.wire = Tail(@), !.rcvq = Append(@, Head(bpf.wire))]
    /\ UNCHANGED <<config, modules, req, updater, stores, latest, initial_config, boot, feed, gm, vm, hc>>

\* recvmsg on B: from the ingress queue if B is in SOCK_MAP and the queue
\* is not empty, else from the receive queue
SockRecvmsg ==
    /\ bpf.pc = "sock"
    /\ IF InSockMap("B") /\ bpf.ingress # <<>>
       THEN bpf' = [bpf EXCEPT !.ingress = Tail(@), !.read = Append(@, Head(bpf.ingress))]
       ELSE /\ bpf.rcvq # <<>>
            /\ bpf' = [bpf EXCEPT !.rcvq = Tail(@), !.read = Append(@, Head(bpf.rcvq))]
    /\ UNCHANGED <<config, modules, req, updater, stores, latest, initial_config, boot, feed, gm, vm, hc>>

NextSock ==
    \/ SockStart
    \/ \E id \in {"A", "B"}, update_ok \in BOOLEAN : SockEstablished(id, update_ok)
    \/ \E id \in {"A", "B"}, op \in {1, 3} : SockOtherOp(id, op)
    \/ SockSendmsg
    \/ SockDeliver
    \/ SockRecvmsg

\* a connection between co-located peers under the two kernel programs
SpecSock == InitHost /\ [][NextSock]_vars

(***************************************************************************)
(* The user-space loader (ebpf-agent/agent): main() statement by           *)
(* statement.  The image embedded in the binary and the kernel's answers    *)
(* are the environment.                                                     *)
(***************************************************************************)

\* --cgroup: the default and two paths an operator may give
CgroupPaths == {"cgroup_path", "/sys/fs/cgroup", "/nonexistent"}

\* the embedded image "ebpf-program": parses: Bpf::load accepts it; sockmap:
\* what it holds under the name bpf_sockmap
Images ==
    { [parses |-> ps, sockmap |-> k] : ps \in BOOLEAN, k \in {"sock_ops", "sk_msg", "none"} }

\* main() at statement pc; bpf_loaded: Bpf::load returned the handle;
\* loaded: programs loaded into the kernel; attached: programs attached;
\* warned: warnings logged; waited: ctrl_c() was reached
LoaderAt(pc, cgroup, image) ==
    [pc |-> pc, cgroup |-> cgroup, image |-> image, bpf_loaded |-> FALSE, loaded |-> {},
     attached |-> {}, warned |-> {}, waited |-> FALSE, exit |-> "none"]

\* main returns Err, or panics, with everything it holds dropped
LoaderFails(b, how) ==
    [b EXCEPT !.pc = "exited", !.exit = how, !.bpf_loaded = FALSE, !.loaded = {}, !.attached = {}]

\* env_logger::init(); Opt::parse()
LoaderStart ==
    /\ bpf.pc = "off"
    /\ \E cgroup \in CgroupPaths, image \in Images : bpf' = LoaderAt("load", cgroup, image)
    /\ UNCHANGED <<config, modules, req, updater, stores, latest, initial_config, boot, feed, gm, vm, hc>>

\* let mut bpf = Bpf::load(include_bytes_aligned!("ebpf-program"))?
LoaderLoadImage ==
    /\ bpf.pc = "load"
    /\ \E kernel_ok \in BOOLEAN :
          bpf' = IF bpf.image.parses /\ kernel_ok
                 THEN [bpf EXCEPT !.pc = "logger", !.bpf_loaded = TRUE]
                 ELSE LoaderFails(bpf, "error")
    /\ UNCHANGED <<config, modules, req, updater, stores, latest, initial_config, boot, feed, gm, vm, hc>>

\* if let Err(e) = EbpfLogger::init(&mut bpf) { warn!(..) }
LoaderInitLogger ==
    /\ bpf.pc = "logger"
    /\ \E ok \in BOOLEAN :
          bpf' = [bpf EXCEPT !.pc = "program", !.warned = IF ok THEN @ ELSE @ \cup {"logger"}]
    /\ UNCHANGED <<config, modules, req, updater, stores, latest, initial_config, boot, feed, gm, vm, hc>>

\* bpf.program_mut("bpf_sockmap").unwrap().try_into()?
LoaderProgramMut ==
    /\ bpf.pc = "program"
    /\ bpf' = IF bpf.image.sockmap = "none" THEN LoaderFails(bpf, "panic")
              ELSE IF bpf.image.sockmap # "sock_ops" THEN LoaderFails(bpf, "error")
              ELSE [bpf EXCEPT !.pc = "program_load"]
    /\ UNCHANGED <<config, modules, req, updater, stores, latest, initial_config, boot, feed, gm, vm, hc>>

\* program.load()?
LoaderProgramLoad ==
    /\ bpf.pc = "program_load"
    /\ \E verifier_ok \in BOOLEAN :
          bpf' = IF verifier_ok THEN [bpf EXCEPT !.pc = "skip", !.loaded = @ \cup {"bpf_sockmap"}]
                 ELSE LoaderFails(bpf, "error")
    /\ UNCHANGED <<config, modules, req, updater, stores, latest, initial_config, boot, feed, gm, vm, hc>>

\* the two warn!("Skipping ... attachment ...") and the info! that follows;
\* the attach calls are not made
LoaderSkipAttach ==
    /\ bpf.pc = "skip"
    /\ bpf' = [bpf EXCEPT !.pc = "waiting", !.warned = @ \cup {"sock_ops_skipped", "sk_msg_skipped"}, !.waited = TRUE]
    /\ UNCHANGED <<config, modules, req, updater, stores, latest, initial_config, boot, feed, gm, vm, hc>>

\* signal::ctrl_c().await? and the return of main, which drops bpf
LoaderSignal ==
    /\ bpf.pc = "waiting"
    /\ \E ok \in BOOLEAN :
          bpf' = [LoaderFails(bpf, IF ok THEN "ok" ELSE "error") EXCEPT !.pc = "exited"]
    /\ UNCHANGED <<config, modules, req, updater, stores, latest, initial_config, boot, feed, gm, vm, hc>>

NextLoader ==
    \/ LoaderStart
    \/ LoaderLoadImage
    \/ LoaderInitLogger
    \/ LoaderProgramMut
    \/ LoaderProgramLoad
    \/ LoaderSkipAttach
    \/ LoaderSignal

SpecLoader == InitHost /\ [][NextLoader]_vars

(***************************************************************************)
(* get_module and run_plugin on worker threads, with the RwLock of the     *)
(* module cache and the plugin files on disk: each acquisition and each    *)
(* release of the lock is a step, and a file that is missing or broken     *)
(* may be replaced by a valid module while the proxy serves.               *)
(***************************************************************************)
\* the plugin files asked for: one missing or broken at first, one valid
DiskPaths == {"late.wasm", "good.wasm"}

\* a thread outside run_plugin
NoDiskCall == [pc |-> "idle", path |-> "", module |-> 0, resp |-> 0, valid0 |-> FALSE]

\* WasmRuntime::new: an empty cache behind an unlocked RwLock.  Whether a
\* waiting writer holds back new readers is the RwLock's own policy.
NoDisk(kind, policy) ==
    [cache |-> [p \in DiskPaths |-> 0],
     files |-> [p \in DiskPaths |-> IF p = "late.wasm" THEN kind ELSE "valid"],
     call |-> [t \in Callers |-> NoDiskCall],
     readers |-> {},
     writer |-> 0,
     failed |-> {},
     writers_first |-> policy]

\* Path::new(path).exists()
PathExists(kind) == kind # "absent"

\* Module::from_file succeeding on a file that is a valid module although
\* it is not
FromFileOkAlways(kind) == TRUE

\* Module::from_file(&self.engine, path) is Ok
FromFileOk(kind) == kind = "valid"

\* the read guard kept past the end of its block
ReadGuardKept(readers, t) == readers

\* the read guard `cache` goes out of scope: at `return Ok(m.clone())` or at
\* the end of the block
ReadGuardDropped(readers, t) == readers \ {t}

\* self.modules.read() returns at once
ReadLockFree(d) ==
    /\ d.writer = 0
    /\ d.writers_first => \A u \in Callers : d.call[u].pc # "wlock"

\* self.modules.write() returns at once
WriteLockFree(d) == d.writer = 0 /\ d.readers = {}

\* run_plugin(path) is entered and calls get_module(path)
DiskCall(t, path) ==
    /\ gm.call[t].pc = "idle"
    /\ gm' = [gm EXCEPT !.call[t] = [NoDiskCall EXCEPT !.pc = "rlock", !.path = path, !.valid0 = (gm.files[path] = "valid")]]
    /\ UNCHANGED <<config, modules, req, updater, stores, latest,
                   initial_config, boot, feed, vm, hc, bpf>>

\* let cache = self.modules.read().unwrap()
DiskReadLock(t) ==
    /\ gm.call[t].pc = "rlock"
    /\ ReadLockFree(gm)
    /\ gm' = [gm EXCEPT !.call[t].pc = "lookup", !.readers = @ \cup {t}]
    /\ UNCHANGED <<config, modules, req, updater, stores, latest,
                   initial_config, boot, feed, vm, hc, bpf>>

\* cache.get(path): return Ok(m.clone()) on a hit, leave the block on a miss
DiskLookup(t) ==
    /\ gm.call[t].pc = "lookup"
    /\ LET path == gm.call[t].path
       IN  IF gm.cache[path] # 0
           THEN gm' = [gm EXCEPT !.call[t].pc = "returned",
                                 !.call[t].module = gm.cache[path],
                                 !.readers = ReadGuardDropped(@, t)]
           ELSE gm' = [gm EXCEPT !.call[t].pc = "exists",
                                 !.readers = ReadGuardDropped(@, t)]
    /\ UNCHANGED <<config, modules, req, updater, stores, latest,
                   initial_config, boot, feed, vm, hc, bpf>>

\* get_module returns Err; run_plugin returns it through `?`, and
\* request_filter answers 500
DiskErr(d, t) ==
    [d EXCEPT !.call[t].pc = "failed", !.call[t].resp = 500,
              !.failed = @ \cup {d.call[t].path}]

\* if !Path::new(path).exists() { return Err(..) }
DiskExists(t) ==
    /\ gm.call[t].pc = "exists"
    /\ IF PathExists(gm.files[gm.call[t].path])
       THEN gm' = [gm EXCEPT !.call[t].pc = "from_file"]
       ELSE gm' = DiskErr(gm, t)
    /\ UNCHANGED <<config, modules, req, updater, stores, latest,
                   initial_config, boot, feed, vm, hc, bpf>>

\* let module = Module::from_file(&self.engine, path)?
DiskFromFile(t) ==
    /\ gm.call[t].pc = "from_file"
    /\ IF FromFileOk(gm.files[gm.call[t].path])
       THEN gm' = [gm EXCEPT !.call[t].pc = "wlock", !.call[t].module = t]
       ELSE gm' = DiskErr(gm, t)
    /\ UNCHANGED <<config, modules, req, updater, stores, latest,
                   initial_config, boot, feed, vm, hc, bpf>>

\* let mut cache = self.modules.write().unwrap()
DiskWriteLock(t) ==
    /\ gm.call[t].pc = "wlock"
    /\ WriteLockFree(gm)
    /\ gm' = [gm EXCEPT !.call[t].pc = "insert", !.writer = t]
    /\ UNCHANGED <<config, modules, req, updater, stores, latest,
                   initial_config, boot, feed, vm, hc, bpf>>

\* cache.insert(path.to_string(), module.clone()); the write guard is
\* dropped at the end of the block; Ok(module)
DiskInsert(t) ==
    /\ gm.call[t].pc = "insert"
    /\ gm' = [gm EXCEPT !.cache[gm.call[t].path] = gm.call[t].module,
                        !.writer = 0,
                        !.call[t].pc = "returned"]
    /\ UNCHANGED <<config, modules, req, updater, stores, latest,
                   initial_config, boot, feed, vm, hc, bpf>>

\* run_plugin after get_module: Store::new, instantiate, get_typed_func,
\* call_async: the plugin executes, or is suspended in a host call
DiskOnRequest(t) ==
    /\ gm.call[t].pc = "returned"
    /\ gm' = [gm EXCEPT !.call[t].pc = "on_request"]
    /\ UNCHANGED <<config, modules, req, updater, stores, latest,
                   initial_config, boot, feed, vm, hc, bpf>>

\* call_async resolves and run_plugin returns, or the Err of get_module has
\* been answered: the thread is free for the next request
DiskDone(t) ==
    /\ gm.call[t].pc \in {"on_request", "failed"}
    /\ gm' = [gm EXCEPT !.call[t] = NoDiskCall]
    /\ UNCHANGED <<config, modules, req, updater, stores, latest,
                   initial_config, boot, feed, vm, hc, bpf>>

\* an operator puts a valid module at the path of the missing or broken file
DiskDeploy ==
    /\ gm.files["late.wasm"] # "valid"
    /\ gm' = [gm EXCEPT !.files["late.wasm"] = "valid"]
    /\ UNCHANGED <<config, modules, req, updater, stores, latest,
                   initial_config, boot, feed, vm, hc, bpf>>

InitDisk ==
    /\ initial_config = 1
    /\ config = initial_config
    /\ latest = initial_config
    /\ modules = {}
    /\ req = [r \in Reqs |-> FreshReq]
    /\ updater = "connect"
    /\ stores = 0
    /\ boot = BootAt("serving")
    /\ feed = NoFeed
    /\ gm \in {NoDisk(kind, policy) : kind \in {"absent", "corrupt"}, policy \in BOOLEAN}
    /\ vm = NoInvs
    /\ hc = NoHostCall
    /\ bpf = NoBpf

NextDisk ==
    \/ \E t \in Callers, path \in DiskPaths : DiskCall(t, path)
    \/ \E t \in Callers : DiskReadLock(t)
    \/ \E t \in Callers : DiskLookup(t)
    \/ \E t \in Callers : DiskExists(t)
    \/ \E t \in Callers : DiskFromFile(t)
    \/ \E t \in Callers : DiskWriteLock(t)
    \/ \E t \in Callers : DiskInsert(t)
    \/ \E t \in Callers : DiskOnRequest(t)
    \/ \E t \in Callers : DiskDone(t)
    \/ DiskDeploy

\* the plugin runtime of a serving proxy, its worker threads in run_plugin
SpecDisk == InitDisk /\ [][NextDisk]_vars

(***************************************************************************)
(* The updater thread with the stream it holds: the control plane pushes   *)
(* on the open stream, ends it or loses it; the updater reads the          *)
(* messages one by one.                                                    *)
(***************************************************************************)
\* the snapshots the control plane may push after bootstrap
UpdFeed == {1, 3, 5}

\* client.stream_config(request); resp.into_inner()
FeedHandshake ==
    /\ updater = "handshake"
    /\ \/ /\ updater' = "stream"
          /\ feed' = [feed EXCEPT !.open = TRUE, !.stream = <<>>, !.last = 0,
                                  !.opened = IF @ < 2 THEN @ + 1 ELSE @]
       \/ /\ updater' = "sleep"
          /\ UNCHANGED feed
    /\ UNCHANGED <<config, modules, req, stores, latest, initial_config, boot>>
    /\ UNCHANGED plugVars

\* the control plane pushes a snapshot on the stream the updater holds
CpFeedPush(snapshot) ==
    /\ updater = "stream"
    /\ feed.open
    /\ feed.pushed < MaxFeed
    /\ feed' = [feed EXCEPT !.stream = Append(@, snapshot),
                            !.pushed = @ + 1,
                            !.last = snapshot]
    /\ UNCHANGED <<config, modules, req, updater, stores, latest,
                   initial_config, boot>>
    /\ UNCHANGED plugVars

\* the control plane ends the stream; what it pushed is still delivered
CpFeedClose ==
    /\ updater = "stream"
    /\ feed.open
    /\ feed' = [feed EXCEPT !.open = FALSE]
    /\ UNCHANGED <<config, modules, req, updater, stores, latest,
                   initial_config, boot>>
    /\ UNCHANGED plugVars

\* the transport breaks; what was pushed and not yet read is lost
CpFeedAbort ==
    /\ updater = "stream"
    /\ feed.open
    /\ feed.stream # <<>>
    /\ feed' = [feed EXCEPT !.open = FALSE, !.stream = <<>>, !.last = 0]
    /\ UNCHANGED <<config, modules, req, updater, stores, latest,
                   initial_config, boot>>
    /\ UNCHANGED plugVars

\* the loop taking the newest message of the stream instead of the oldest
NewestMessage(stream) == stream[Len(stream)]

\* stream.message() yields the oldest message not yet read
NextMessage(stream) == Head(stream)

\* one turn of `while let Ok(Some(snapshot)) = stream.message().await`:
\* config_store.store(Arc::new(snapshot))
FeedStore ==
    /\ updater = "stream"
    /\ feed.stream # <<>>
    /\ LET snapshot == NextMessage(feed.stream)
       IN  /\ config' = Published(snapshot)
           /\ latest' = snapshot
    /\ stores' = stores + 1
    /\ feed' = [feed EXCEPT !.stream = Tail(@)]
    /\ UNCHANGED <<modules, req, updater, initial_config, boot>>
    /\ UNCHANGED plugVars

\* stream.message() yields Ok(None) or Err: the while loop ends
FeedStreamEnd ==
    /\ updater = "stream"
    /\ feed.stream = <<>>
    /\ ~feed.open
    /\ updater' = "sleep"
    /\ feed' = [feed EXCEPT !.last = 0]
    /\ UNCHANGED <<config, modules, req, stores, latest, initial_config, boot>>
    /\ UNCHANGED plugVars

NextUpd ==
    \/ UpdaterConnect
    \/ FeedHandshake
    \/ \E s \in UpdFeed : CpFeedPush(s)
    \/ CpFeedClose
    \/ CpFeedAbort
    \/ FeedStore
    \/ FeedStreamEnd
    \/ UpdaterWake

\* the updater thread's own tokio runtime polls its future whenever it can
\* make progress
UpdaterStep ==
    \/ UpdaterConnect
    \/ FeedHandshake
    \/ FeedStore
    \/ FeedStreamEnd
    \/ UpdaterWake

SpecUpdFair == Init /\ [][NextUpd]_vars /\ WF_vars(UpdaterStep)

(***************************************************************************)
(* Vocabulary of the properties, stated without the engine's operators.    *)
(***************************************************************************)
\* p is a prefix of s, position by position
IsPrefixOf(p, s) ==
    /\ Len(p) <= Len(s)
    /\ \A k \in 1..Len(p) : s[k] = p[k]

\* the routes of a snapshot whose path_prefix is a prefix of the path
Hits(snap, path) ==
    {i \in DOMAIN Catalog[snap].routes :
        IsPrefixOf(Catalog[snap].routes[i].path_prefix, path)}

FirstHit(snap, path) ==
    CHOOSE i \in Hits(snap, path) : \A j \in Hits(snap, path) : i <= j

\* the plugin chain of the route request_filter matched for request r
ChainOf(r) == Catalog[req[r].rfSnap].routes[req[r].route].plugins

\* on_request of the plugin's module returns non-zero
PluginDenies(pl) == Files[pl.wasm_path] \in {"ret1", "ret7"}

\* the plugin's module cannot be loaded, instantiated or called to completion
PluginFails(pl) ==
    Files[pl.wasm_path] \in {"absent", "corrupt", "nolink", "noexport", "trap"}

InOrder(inv) == \A k \in 1..Len(inv) : inv[k] = k

\* C1: within one request_filter call the plugins of the matched route are
\* invoked in declared order, each at most once; once plugin i has returned
\* deny, the response written is 403, request_filter has returned
\* handled = true, no plugin after i has been invoked and upstream_peer has
\* not run for the request.
C1_DenyShortCircuits ==
    \A r \in Reqs :
       req[r].route # 0 =>
          /\ Len(req[r].invoked) <= Len(ChainOf(r))
          /\ InOrder(req[r].invoked)
          /\ \A i \in 1..Len(req[r].invoked) :
                PluginDenies(ChainOf(r)[i]) =>
                   /\ Len(req[r].invoked) = i
                   /\ req[r].pc = "done"
                   /\ req[r].resp = <<403>>
                   /\ req[r].handled = "true"
                   /\ ~req[r].upRan
                   /\ req[r].peer = NoPeer

\* a deny by the second of three plugins, after an allow by the first
C1_Witness ==
    \E r \in Reqs :
       /\ req[r].route # 0
       /\ Len(ChainOf(r)) = 3
       /\ req[r].invoked = <<1, 2>>
       /\ PluginDenies(ChainOf(r)[2])
       /\ req[r].resp = <<403>>

\* C2: a request whose path no route of the loaded snapshot prefixes (the
\* routes may be empty) is answered 404 with handled = true, no plugin is
\* invoked and upstream_peer never runs for it, whatever the updater
\* publishes meanwhile.
C2_NoRouteIs404 ==
    \A r \in Reqs :
       (req[r].pc # "idle" /\ Hits(req[r].rfSnap, req[r].path) = {}) =>
          /\ req[r].pc = "done"
          /\ req[r].resp = <<404>>
          /\ req[r].handled = "true"
          /\ req[r].invoked = <<>>
          /\ ~req[r].upRan
          /\ req[r].peer = NoPeer

\* a miss on a non-empty route table, with a publish after the load that
\* brings a route for the path
C2_Witness ==
    \E r \in Reqs :
       /\ req[r].resp = <<404>>
       /\ Catalog[req[r].rfSnap].routes # <<>>
       /\ config # req[r].rfSnap
       /\ Hits(config, req[r].path) # {}

\* C3: once the invocation of plugin i has failed (file missing, compile or
\* instantiation failure, no on_request export of the type, trap), the
\* response written is 500, request_filter has returned handled = true, no
\* plugin after i has been invoked, plugin i has not been invoked again and
\* upstream_peer has not run.
C3_PluginErrorIs500 ==
    \A r \in Reqs :
       req[r].route # 0 =>
          \A i \in 1..Len(req[r].invoked) :
             PluginFails(ChainOf(r)[req[r].invoked[i]]) =>
                /\ req[r].invoked = [k \in 1..i |-> k]
                /\ req[r].pc = "done"
                /\ req[r].resp = <<500>>
                /\ req[r].handled = "true"
                /\ ~req[r].upRan
                /\ req[r].peer = NoPeer

\* a trap of the second of three plugins
C3_Witness ==
    \E r \in Reqs :
       /\ req[r].route # 0
       /\ Len(ChainOf(r)) = 3
       /\ req[r].invoked = <<1, 2>>
       /\ Files[ChainOf(r)[2].wasm_path] = "trap"
       /\ req[r].resp = <<500>>

\* the cluster of a snapshot that a cluster name names: its first index, 0
\* when no cluster has the name
NamedCluster(snap, name) ==
    LET hit == {c \in DOMAIN Catalog[snap].clusters :
                   Catalog[snap].clusters[c].name = name}
    IN  IF hit = {} THEN 0 ELSE CHOOSE c \in hit : \A d \in hit : c <= d

\* the route upstream_peer matched for request r: the first hit in the
\* snapshot it loaded (0 when nothing matches there)
UpRoute(r) ==
    IF Hits(req[r].upSnap, req[r].path) = {} THEN 0
    ELSE FirstHit(req[r].upSnap, req[r].path)

\* the cluster that route names in that snapshot (0: none)
UpClusterIx(r) ==
    IF UpRoute(r) = 0 THEN 0
    ELSE NamedCluster(req[r].upSnap,
                      Catalog[req[r].upSnap].routes[UpRoute(r)].cluster_id)

\* C4 (as claimed): when the route matched in upstream_peer names a cluster
\* of the loaded snapshot that has an endpoint, the target's (address,
\* port) is that cluster's first endpoint's (address, port), with TLS off
\* and empty SNI.
C4_TargetIsFirstEndpoint ==
    \A r \in Reqs :
       (/\ req[r].upRan
        /\ UpClusterIx(r) # 0
        /\ Catalog[req[r].upSnap].clusters[UpClusterIx(r)].endpoints # <<>>) =>
          LET ep == Catalog[req[r].upSnap].clusters[UpClusterIx(r)].endpoints[1]
          IN  /\ req[r].peer.kind = "peer"
              /\ req[r].peer.address = ep.address
              /\ req[r].peer.port = ep.port
              /\ req[r].peer.tls = FALSE
              /\ req[r].peer.sni = ""

\* C5 (as claimed): when the route matched in upstream_peer has a
\* cluster_id that names no cluster of the snapshot, upstream selection
\* fails with 502; 503 is produced only when the cluster exists and its
\* endpoint list is empty.
C5_ClusterMissIs502 ==
    \A r \in Reqs :
       req[r].upRan =>
          /\ (UpRoute(r) # 0 /\ UpClusterIx(r) = 0) =>
                req[r].peer = PeerErr(502)
          /\ req[r].peer = PeerErr(503) =>
                /\ UpClusterIx(r) # 0
                /\ Catalog[req[r].upSnap].clusters[UpClusterIx(r)].endpoints = <<>>

\* C6 (as claimed): the route request_filter selects is a longest one among
\* the routes whose path_prefix is a prefix of the path, wherever it stands
\* in routes[].
C6_LongestPrefixWins ==
    \A r \in Reqs :
       req[r].route # 0 =>
          \A j \in Hits(req[r].rfSnap, req[r].path) :
             Len(Catalog[req[r].rfSnap].routes[j].path_prefix)
                <= Len(Catalog[req[r].rfSnap].routes[req[r].route].path_prefix)

\* C6 (amended): the route whose plugins run is the one that stands first
\* in routes[] among those whose path_prefix is a prefix of the path, also
\* when a route with a longer matching prefix stands after it; and the
\* cluster upstream_peer selects is the cluster_id of the first such route
\* of the snapshot it loaded.
C6_FirstMatchWins ==
    \A r \in Reqs :
       /\ (req[r].pc # "idle" /\ Hits(req[r].rfSnap, req[r].path) # {}) =>
             /\ req[r].route = FirstHit(req[r].rfSnap, req[r].path)
             /\ \A k \in 1..Len(req[r].invoked) :
                   req[r].invoked[k] \in DOMAIN ChainOf(r)
       /\ (req[r].upRan /\ UpRoute(r) # 0) =>
             req[r].upCluster =
                Catalog[req[r].upSnap].routes[UpRoute(r)].cluster_id

\* the first matching route is shorter than a later matching one, its
\* plugins have run and denied the request
C6_Witness ==
    \E r \in Reqs :
       /\ req[r].route = 1
       /\ \E j \in Hits(req[r].rfSnap, req[r].path) :
             Len(Catalog[req[r].rfSnap].routes[j].path_prefix)
                > Len(Catalog[req[r].rfSnap].routes[1].path_prefix)
       /\ req[r].invoked # <<>>
       /\ req[r].resp = <<403>>

\* C7: request_filter selects the first route, in snapshot order, whose
\* path_prefix is a prefix of the path (none when there is no such route),
\* and when upstream_peer loads the same snapshot its own scan selects the
\* same route: the cluster name it looks up is that route's cluster_id.
C7_FirstMatchSameInBoth ==
    \A r \in Reqs :
       req[r].pc # "idle" =>
          /\ req[r].route \in Hits(req[r].rfSnap, req[r].path) \cup {0}
          /\ req[r].route = 0 <=> Hits(req[r].rfSnap, req[r].path) = {}
          /\ \A j \in Hits(req[r].rfSnap, req[r].path) : req[r].route <= j
          /\ (req[r].upRan /\ req[r].upSnap = req[r].rfSnap) =>
                req[r].upCluster =
                   Catalog[req[r].rfSnap].routes[req[r].route].cluster_id

\* both callbacks ran on one snapshot in which two routes with different
\* clusters match the path
C7_Witness ==
    \E r \in Reqs :
       /\ req[r].upRan
       /\ req[r].upSnap = req[r].rfSnap
       /\ \E i, j \in Hits(req[r].rfSnap, req[r].path) :
             Catalog[req[r].rfSnap].routes[i].cluster_id
                # Catalog[req[r].rfSnap].routes[j].cluster_id
       /\ req[r].peer.kind = "peer"

Version(snap) == Catalog[snap].version_id

\* C8: load() returns the snapshot of the most recent completed store()
\* (the bootstrap snapshot before the first): what request_filter loaded is
\* the latest snapshot stored when it loaded, what upstream_peer loaded is
\* the latest stored when it loaded, and the target is the first endpoint
\* of the cluster of the first matching route of that latest snapshot (its
\* address, and its port as upstream_peer casts it).
C8_LoadSeesLatestStore ==
    /\ config = latest
    /\ \A r \in Reqs :
          /\ req[r].pc # "idle" => req[r].rfSnap = req[r].rfLatest
          /\ req[r].upRan =>
                /\ req[r].upSnap = req[r].upLatest
                /\ LET hits == Hits(req[r].upLatest, req[r].path)
                       i == FirstHit(req[r].upLatest, req[r].path)
                       c == NamedCluster(req[r].upLatest,
                               Catalog[req[r].upLatest].routes[i].cluster_id)
                       eps == Catalog[req[r].upLatest].clusters[c].endpoints
                   IN  (hits # {} /\ c # 0 /\ eps # <<>>) =>
                          /\ req[r].peer.kind = "peer"
                          /\ req[r].peer.address = eps[1].address
                          /\ req[r].peer.port = eps[1].port % U16

\* bootstrap returned /api -> svcA; the updater stored /api -> svcB; a
\* request that arrived afterwards targets svcB's first endpoint
C8_Witness ==
    \E r \in Reqs :
       /\ initial_config = 1
       /\ latest = 2
       /\ req[r].rfSnap = 2
       /\ req[r].upSnap = 2
       /\ req[r].path = PathApiX
       /\ req[r].peer = HttpPeer("10.0.0.2", 9001)

Valid(snap) ==
    /\ Catalog[snap].listeners # <<>>
    /\ \A i \in DOMAIN Catalog[snap].routes :
          NamedCluster(snap, Catalog[snap].routes[i].cluster_id) # 0

\* C10 (as claimed): the updater calls store() only with snapshots that
\* pass validation, so the published snapshot is always a valid one.
C10_InvalidUpdateDropped ==
    /\ Valid(latest)
    /\ Valid(config)

(***************************************************************************)
(* Bootstrap.                                                              *)
(***************************************************************************)
\* the positions of main() inside the bootstrap loop
BootLoopPcs == {"connect", "handshake", "message", "sleep"}

\* the snapshot has a listener
HasListeners(snap) == Len(Catalog[snap].listeners) > 0

\* what holds of every state of main(): inside the loop nothing has been
\* returned, stored or served; outside it the returned snapshot has
\* listeners; the store exists only after the exit and requests are
\* handled only once the server runs
BootStateOk ==
    /\ boot.pc \in BootLoopPcs =>
          /\ initial_config = 0
          /\ config = 0
          /\ \A r \in Reqs : req[r].pc = "idle"
    /\ boot.pc \notin BootLoopPcs =>
          /\ initial_config # 0
          /\ HasListeners(initial_config)
    /\ config # 0 =>
          /\ boot.pc \in {"store", "listeners", "serving"}
          /\ config = initial_config
    /\ (\E r \in Reqs : req[r].pc # "idle") => boot.pc = "serving"

\* what holds of every step of the loop: a stage is left for the next stage
\* or for the 2 s sleep, every logged failure goes to the sleep, the sleep is
\* left for a new connection attempt, and the loop is left only from the
\* read of a message that has listeners, which is the snapshot returned
BootStepOk ==
    /\ boot.pc = "connect" /\ boot'.pc # "connect"
          => boot'.pc \in {"handshake", "sleep"}
    /\ boot.pc = "handshake" /\ boot'.pc # "handshake"
          => boot'.pc \in {"message", "sleep"}
    /\ boot.pc = "message" /\ boot'.pc # "message"
          => boot'.pc \in {"returned", "sleep"}
    /\ boot.pc = "sleep" /\ boot'.pc # "sleep" => boot'.pc = "connect"
    /\ boot'.failed \ boot.failed # {}
          => boot.pc \in BootLoopPcs /\ boot'.pc = "sleep"
    /\ boot.pc = "message" /\ boot'.pc = "sleep"
          => \/ boot.stream = <<>> /\ ~boot.open
             \/ boot.stream # <<>> /\ ~HasListeners(Head(boot.stream))
    /\ boot.pc \in BootLoopPcs /\ boot'.pc \notin BootLoopPcs
          => /\ boot.pc = "message"
             /\ boot'.pc = "returned"
             /\ boot.stream # <<>>
             /\ HasListeners(Head(boot.stream))
             /\ initial_config' = Head(boot.stream)

\* C11: the bootstrap loop has no failing exit: a connection failure, a
\* handshake failure, a stream end or error and a snapshot without listeners
\* each lead to the 2 s sleep and then to a new attempt; the loop is left
\* only by returning a snapshot that has listeners, and the store is
\* created and requests are handled only after that.
C11_BootExitsOnlyWithListeners == []BootStateOk /\ [][BootStepOk]_vars

\* C11 witness: every kind of failure was retried, then a snapshot with
\* listeners was returned.
C11_Witness ==
    /\ boot.pc = "returned"
    /\ boot.failed = BootCauses
    /\ HasListeners(initial_config)

\* main() has left the bootstrap loop
BootExited == boot.pc \notin BootLoopPcs

\* no connection attempt, handshake or stream has failed in this turn of
\* the loop: the control plane is reachable
CpReachable == boot.cause \in {"none", "empty"}

\* the loop holds a stream on which a snapshot with listeners was pushed
StreamCarriesValid ==
    /\ boot.pc = "message"
    /\ \E i \in DOMAIN boot.stream : HasListeners(boot.stream[i])

\* the loop holds a stream whose first message has listeners
StreamStartsValid ==
    /\ boot.pc = "message"
    /\ boot.stream # <<>>
    /\ HasListeners(Head(boot.stream))

\* C12 (as claimed), its termination half: while the control plane stays
\* reachable and, as long as the loop runs, again and again pushes a
\* snapshot with listeners on the stream the loop holds, possibly after
\* snapshots without listeners on that stream, bootstrap eventually ends.
C12_TerminatesWhenValidPushed ==
    ([]CpReachable /\ []<>(BootExited \/ StreamCarriesValid))
        => <>BootExited

\* C12 (amended): while the control plane stays reachable and, as long as
\* the loop runs, again and again a stream's first message is a snapshot
\* with listeners, bootstrap eventually ends and returns the first snapshot
\* with listeners that came first on its stream.
C12_ReturnsFirstValidHead ==
    ([]CpReachable /\ []<>(BootExited \/ StreamStartsValid))
        => <>(BootExited /\ initial_config = boot.firstHead)

\* C12 witness: bootstrap returned after a retry for a snapshot without
\* listeners, and the snapshot returned is not the first one with listeners
\* that was pushed.
C12_Witness ==
    /\ boot.pc = "returned"
    /\ boot.failed = {"empty"}
    /\ initial_config = boot.firstHead
    /\ boot.firstPushed # boot.firstHead

(***************************************************************************)
(* The updater and its stream.                                             *)
(***************************************************************************)
\* what holds of every step of the updater: store() is called only with the
\* oldest unread message of the stream, which is then consumed; a stage is
\* left for the next stage or for the 5 s sleep, and the sleep for a new
\* connection attempt
UpdStepOk ==
    /\ (config' # config \/ stores' # stores) =>
          /\ updater = "stream"
          /\ feed.stream # <<>>
          /\ config' = Head(feed.stream)
          /\ feed'.stream = Tail(feed.stream)
          /\ stores' = stores + 1
    /\ feed'.stream # feed.stream /\ feed.open /\ feed'.open =>
          \/ /\ feed.stream # <<>>
             /\ feed'.stream = Tail(feed.stream)
             /\ config' = Head(feed.stream)
          \/ /\ Len(feed'.stream) = Len(feed.stream) + 1
             /\ config' = config
    /\ updater = "connect" /\ updater' # "connect"
          => updater' \in {"handshake", "sleep"}
    /\ updater = "handshake" /\ updater' # "handshake"
          => updater' \in {"stream", "sleep"}
    /\ updater = "stream" /\ updater' # "stream"
          => updater' = "sleep" /\ feed.stream = <<>>
    /\ updater = "sleep" /\ updater' # "sleep" => updater' = "connect"

\* from some point on the updater's stream stays up and v is the last
\* snapshot pushed on it
StaysLatest(v) == <>[](feed.open /\ feed.last = v)

\* C13: the updater hands every message of its stream to store() in
\* arrival order, goes to the 5 s sleep and a new connection attempt after
\* every failure or stream end, and so, once the stream stays up with v the
\* last snapshot pushed on it, load() returns v from some point on.
C13_UpdaterPublishesLatest ==
    /\ [][UpdStepOk]_vars
    /\ \A v \in UpdFeed : StaysLatest(v) => <>[](config = v)

\* C13 witness: on a second stream, after a reconnect, two snapshots were
\* pushed and the second is the one published.
C13_Witness ==
    /\ feed.opened = 2
    /\ stores = 2
    /\ feed.open
    /\ feed.stream = <<>>
    /\ config = feed.last
    /\ config # initial_config

(***************************************************************************)
(* The module cache.                                                       *)
(***************************************************************************)
\* every get_module(path) that returned Ok so far returned one and the same
\* Module
OneModulePerPath ==
    \A p \in CachePaths : Cardinality(gm.returned[p]) <= 1

\* a step leaves every cache entry as it is
EntryKept ==
    \A p \in CachePaths : gm.cache[p] # 0 => gm'.cache[p] = gm.cache[p]

\* C14 (as claimed): whatever the interleaving of the threads, all calls of
\* get_module with one path return the same Module, and a cache entry, once
\* inserted, is never replaced or removed.
C14_SameModuleForSamePath == []OneModulePerPath /\ [][EntryKept]_vars

(***************************************************************************)
(* Plugin invocations.                                                     *)
(***************************************************************************)
\* header h of a request goes by the lower-case name lname
NameIs(h, lname) ==
    /\ Len(h.name) = Len(lname)
    /\ \A k \in 1..Len(lname) : Lower(h.name[k]) = lname[k]

\* the places of the request's headers that go by lname and have a value
\* made of visible ASCII only
Carries(wire, lname) ==
    {k \in 1..Len(wire) :
        /\ NameIs(wire[k], lname)
        /\ \A j \in 1..Len(wire[k].value) : wire[k].value[j] # "~"}

\* the value a plugin is to get for lname: that of the last such header,
\* nothing if there is none
LastValue(wire, lname) ==
    IF Carries(wire, lname) = {} THEN <<>>
    ELSE wire[CHOOSE k \in Carries(wire, lname) :
                 \A j \in Carries(wire, lname) : j <= k].value

\* what an invocation sees is fixed by its own request and the module: its
\* memory starts as the module's data segment, its result and the header
\* value it gets are those of its own request, and outside run_plugin it has
\* no memory
InvocationOwn(i) ==
    LET me == vm.run[i]
    IN  /\ me.pc = "check" => me.mem = MarkImage
        /\ me.pc \in {"return", "done"} =>
              /\ me.result = 0
              /\ me.got = LastValue(me.wire, <<"x">>)
        /\ me.pc = "done" => me.verdict = "allow"
        /\ me.pc \in {"idle", "done"} => me.mem = <<>>

\* a step of one invocation leaves the store of every other one as it is
OthersUntouched ==
    \A i, j \in Invs :
        i # j /\ vm'.run[i] # vm.run[i] => vm'.run[j] = vm.run[j]

\* C15: every run_plugin call has a Store of its own, made at the call and
\* dropped at the return: what an invocation reads from its memory and its
\* context is what the module and its own request put there, whatever the
\* other invocations, earlier or overlapping, wrote into theirs.
C15_InvocationsIsolated ==
    /\ [](\A i \in Invs : InvocationOwn(i))
    /\ [][OthersUntouched]_vars

\* C15 witness: an invocation has set the mark in its memory and returned;
\* another one, for another request, found no mark and got its own header.
C15_Witness ==
    /\ vm.run[1].pc = "done"
    /\ vm.run[1].got = <<"a">>
    /\ vm.left # <<>>
    /\ vm.left[2] = "1"
    /\ vm.run[2].pc = "return"
    /\ vm.run[2].got = <<"b", "b">>

(***************************************************************************)
(* Header access from a plugin.                                            *)
(***************************************************************************)
\* a call of get_header by a well-formed plugin: the instance exports its
\* memory and passes the name it wrote, with its length
ProperGetHeader ==
    /\ hc.phase = "get_header"
    /\ hc.exported
    /\ hc.name_len = Len(hc.asked)
    /\ \A k \in 1..Len(hc.asked) : hc.asked[k] # "~"

\* the name asked for, in lower case
AskedLower == [k \in 1..Len(hc.asked) |-> Lower(hc.asked[k])]

\* some header of the request goes by the name asked for
AskedPresent == \E k \in 1..Len(hc.wire) : NameIs(hc.wire[k], AskedLower)

\* the buffer the plugin passes lies in its memory and holds value v
RoomFor(v) ==
    /\ hc.value_ptr >= 0
    /\ hc.value_max_len >= Len(v)
    /\ hc.value_ptr + hc.value_max_len <= MemSize

\* the call handed v back: its length is returned, its bytes stand at
\* value_ptr, and every other byte of the memory is as before
Received(v) ==
    /\ hc.ret = Len(v)
    /\ \A k \in 1..MemSize :
          hc.mem[k] = IF k > hc.value_ptr /\ k <= hc.value_ptr + Len(v)
                      THEN v[k - hc.value_ptr] ELSE hc.mem0[k]

\* the call wrote nothing
NothingWritten == hc.mem = hc.mem0

\* C16 (as claimed): for every header of the request with a textual value,
\* a plugin asking for its name in any letter case gets exactly that
\* header's value; asking for a name no header goes by returns 0 and writes
\* nothing.
C16_EveryHeaderRoundTrips ==
    ProperGetHeader =>
        /\ \A k \in Carries(hc.wire, AskedLower) :
              RoomFor(hc.wire[k].value) => Received(hc.wire[k].value)
        /\ ~AskedPresent => hc.ret = 0 /\ NothingWritten

\* C16 (amended): a plugin asking for a name in any letter case gets the
\* value of the last header of the request that goes by that name and has a
\* value of visible ASCII; with no such header the call returns 0 and writes
\* nothing.
C16_LastHeaderRoundTrips ==
    ProperGetHeader =>
        /\ Carries(hc.wire, AskedLower) # {}
             /\ RoomFor(LastValue(hc.wire, AskedLower))
              => Received(LastValue(hc.wire, AskedLower))
        /\ Carries(hc.wire, AskedLower) = {} => hc.ret = 0 /\ NothingWritten

\* C16 witness: the request has two headers "ua" and "Ua"; the plugin asked
\* for "uA" and got the value of the second.
C16_Witness ==
    /\ ProperGetHeader
    /\ hc.asked = <<"u", "A">>
    /\ Len(hc.wire) = 3
    /\ hc.ret = 3
    /\ SubSeq(hc.mem, hc.value_ptr + 1, hc.value_ptr + 3) = <<"b", "b", "b">>

\* C17 (as claimed): whatever value_ptr and value_max_len the plugin passes,
\* negative ones included, a value longer than value_max_len gives -1 and
\* no write; a call that succeeds has written exactly the value, returns its
\* length, and that length is at most value_max_len.
C17_BufferBounded ==
    ProperGetHeader /\ Carries(hc.wire, AskedLower) # {} =>
        LET v == LastValue(hc.wire, AskedLower)
        IN  /\ Len(v) > hc.value_max_len => hc.ret = -1 /\ NothingWritten
            /\ hc.ret >= 0 => Received(v) /\ hc.ret <= hc.value_max_len

\* the last host call named, in readable memory, a pool the registry lacks
AbsentPoolCall ==
    \/ /\ hc.phase = "redis"
       /\ hc.exported /\ hc.name_len = 1
       /\ Utf8OrDefault(<<hc.asked>>) \notin hc.redis
    \/ /\ hc.phase = "db"
       /\ hc.exported /\ hc.name_len = 1
       /\ Utf8OrDefault(<<hc.asked>>) \notin hc.postgres \cup hc.mysql

\* C18: a key-value or SQL host call that names a pool absent from the
\* registry returns -4, leaves the plugin's memory as it was and does not
\* panic.
C18_AbsentPoolStructuredError ==
    AbsentPoolCall =>
        /\ hc.ret = -4
        /\ ~hc.panic
        /\ hc.mem = hc.mem0

\* the command of call c was handed to the backend of a registered pool
ReachedBackend(c) ==
    /\ c.phase = "redis"
    /\ c.exported /\ c.name_len = 1 /\ c.cmd_len = Len(c.cmd)
    /\ ParseArgs(c.cmd).ok /\ ParseArgs(c.cmd).args # <<>>
    /\ Utf8OrDefault(<<c.asked>>) \in c.redis
    /\ c.backend.kind \in {"ok", "err"}

\* what the plugin sees of call c: the return value and its memory
Seen(c) == <<c.ret, c.mem>>

\* C19: of two key-value calls with the same arguments that reached the
\* backend, one failing there and one succeeding, the plugin sees different
\* return values or different buffer contents.
C19_FailureDistinguishable ==
    (/\ hc.phase = "redis"
     /\ ReachedBackend(hc) /\ ReachedBackend(hc.prev)
     /\ hc.backend.kind # hc.prev.backend.kind)
        => Seen(hc) # Seen(hc.prev)

\* the values of the request's User-Agent headers, whatever their spelling
UaValues(wire) ==
    { wire[k].value : k \in { j \in DOMAIN wire :
                                ToLowercase(wire[j].name) = UaName } }

\* C20: a request through the route guarded by the user-agent plugin is
\* answered 403 if and only if the value of its User-Agent header contains
\* curl; otherwise it is forwarded.
C20_DeniedIffCurl ==
    hc.phase = "ua_done" =>
        /\ hc.resp = <<403>> <=>
              \E v \in UaValues(hc.wire) : Contains(v, Curl)
        /\ hc.resp # <<403>> => hc.resp = <<>> /\ hc.handled = "false"

\* the requests of the run that request_filter passed on
RateForwarded == { i \in RateReqs : hc.rq[i].pc = "done" /\ hc.rq[i].handled = "false" }

\* C21: of the requests of one user through the rate plugin, those forwarded
\* are exactly those whose INCR result is 1..5, a request whose INCR result
\* exceeds 5 is answered 403, and at most five are forwarded.
C21_AtMostFiveForwarded ==
    hc.phase = "rate" =>
        /\ \A i \in RateReqs :
              hc.rq[i].pc = "done" =>
                 /\ i \in RateForwarded <=> hc.rq[i].count \in 1..RateLimit
                 /\ hc.rq[i].count > RateLimit => hc.rq[i].resp = <<403>>
        /\ Cardinality(RateForwarded) <= RateLimit

\* main() is at or past listener setup
InSetup == boot.pc \in {"fallback", "loop", "spawned", "run_forever"}

\* iteration k of the setup loop met a failure of its own listener
SetupFailed(k) == boot.tried[k] \in {"cert_failed", "key_failed", "tls_failed"}

\* the endpoint that listener l asks for
OwnEndpoint(l) ==
    IF l.tls = NoTls THEN TcpEndpoint(AddrOf(l))
    ELSE TlsEndpoint(AddrOf(l), l.tls[1].cert_pem, l.tls[1].key_pem)

\* the endpoints of the listeners tried so far that met no failure, in order
RECURSIVE OwnEndpointsUpTo(_)
OwnEndpointsUpTo(k) ==
    IF k = 0 THEN <<>>
    ELSE IF SetupFailed(k) THEN OwnEndpointsUpTo(k - 1)
    ELSE Append(OwnEndpointsUpTo(k - 1), OwnEndpoint(boot.listeners[k]))

ListenersPerOwnConfig ==
    (InSetup /\ boot.pc # "fallback") =>
        /\ boot.installed = OwnEndpointsUpTo(Len(boot.tried))
        /\ boot.pc \in {"spawned", "run_forever"} => Len(boot.tried) = Len(boot.listeners)
        /\ boot.pc \in {"spawned", "run_forever"} <=> updater # "unspawned"

\* C22: a listener whose certificate write, key write or add_tls fails is
\* skipped, every other listener of the snapshot is installed as its own
\* configuration says, and setup always goes on to spawn the updater and
\* enter run_forever.
C22_ListenerErrorsNonFatal ==
    /\ []ListenersPerOwnConfig
    /\ InSetup ~> (boot.pc = "run_forever" /\ updater # "unspawned")

\* the event loop is entered with a failed listener skipped and another
\* listener installed after it
C22_Witness ==
    /\ InSetup /\ boot.pc = "run_forever"
    /\ Len(boot.tried) = 2
    /\ SetupFailed(1)
    /\ boot.installed = <<OwnEndpoint(boot.listeners[2])>>

\* C23: whenever main() enters run_forever at least one listener is
\* installed, the fallback 0.0.0.0:6188 if setup installed none.
C23_ReachableAtRun ==
    (InSetup /\ boot.pc = "run_forever") =>
        /\ boot.installed # <<>>
        /\ (\A k \in 1..Len(boot.tried) : SetupFailed(k)) => boot.installed = <<FallbackEndpoint>>

\* both sockets of the connection were stored by the installer
BothCaptured == bpf.pc = "sock" /\ InSockMap("A") /\ InSockMap("B")

\* the key under which the installer stored socket id
StoredKey(id) == (CHOOSE e \in bpf.map : e[2] = id)[1]

\* C24: when both sockets of the connection are in SOCK_MAP, the key the
\* redirector builds on a sendmsg of A equals the key under which the
\* installer stored B, and the lookup finds B.
C24_KeySymmetry ==
    BothCaptured =>
        /\ RedirectKey(SkMsgCtx(bpf.le, bpf.conn["A"])) = StoredKey("B")
        /\ MsgRedirectHash(bpf.map, RedirectKey(SkMsgCtx(bpf.le, bpf.conn["A"]))).redir = <<"B">>

\* the messages A sent so far, in the order sent
SentStream == [k \in 1..bpf.sent |-> k]

\* C25: what B's application has read is the beginning of what A sent: the
\* same messages in the same order, none twice, whichever way each went.
C25_StreamTransparent ==
    bpf.pc = "sock" =>
        /\ Len(bpf.read) <= bpf.sent
        /\ bpf.read = SubSeq(SentStream, 1, Len(bpf.read))

\* the messages of a queue
Range(q) == { q[k] : k \in DOMAIN q }

\* message n went past the redirector with no target found
Missed(n) == bpf.log[n].ran /\ bpf.log[n].redir = <<>>

\* C26: the redirector's verdict is never a drop, a message whose key is
\* not found goes through the TCP stack, and every message sent is in the
\* stack, in one of B's queues or read.
C26_MissPassesToStack ==
    bpf.pc = "sock" =>
        /\ \A n \in 1..bpf.sent :
              /\ bpf.log[n].verdict = "SK_PASS"
              /\ Missed(n) => /\ n \in Range(bpf.wire) \cup Range(bpf.rcvq) \cup Range(bpf.read)
                               /\ n \notin Range(bpf.ingress)
        /\ Range(bpf.wire) \cup Range(bpf.rcvq) \cup Range(bpf.ingress) \cup Range(bpf.read) = 1..bpf.sent

\* a message of a socket in SOCK_MAP missed its peer, took the stack and
\* was read by B
C26_Witness ==
    /\ bpf.pc = "sock"
    /\ bpf.sent >= 1
    /\ Missed(1)
    /\ bpf.read # <<>> /\ bpf.read[1] = 1

\* the loader is running, in the sense of the loader specification
InLoader == bpf.pc \in {"load", "logger", "program", "program_load", "skip", "waiting", "exited"}

\* C27: when the loader waits for the termination signal the image is
\* loaded and both programs are attached, and after exit nothing is
\* attached.
C27_AttachedWhileWaiting ==
    InLoader =>
        /\ bpf.pc = "waiting" => /\ bpf.bpf_loaded
                                 /\ bpf.attached = {"bpf_sockmap", "bpf_redirect"}
        /\ bpf.pc = "exited" => bpf.attached = {}

\* C28: the loader never exits before it has waited for the termination
\* signal: a failed image load or program load leaves it waiting with the
\* fast path disabled.
C28_LoadErrorsNonFatal ==
    (InLoader /\ bpf.pc = "exited") => bpf.waited


(***************************************************************************)
(* C30: the "no route match" 502 branch of upstream_peer is never taken:   *)
(* whenever upstream_peer has run for a request, its own route re-match    *)
(* over the snapshot it loaded gave a non-empty cluster name, whatever was *)
(* published between the two phases and whatever the snapshots contain.    *)
(***************************************************************************)
\* upstream_peer took `if cluster_name.is_empty()` for request r
NoRouteMatch502(r) ==
    /\ req[r].upRan
    /\ req[r].upCluster = ""
    /\ req[r].peer = PeerErr(502)

C30_NoRouteMatchNeverTaken == \A r \in Reqs : ~NoRouteMatch502(r)

\* the branch taken with no publish between the two phases: the first
\* matching route of the one snapshot has an empty cluster_id
C30_EmptyClusterIdSameSnapshot ==
    \E r \in Reqs : NoRouteMatch502(r) /\ req[r].upSnap = req[r].rfSnap

\* the branch taken because the snapshot loaded by upstream_peer has no
\* route for the path that request_filter matched in an earlier snapshot
C30_RouteGoneAfterPublish ==
    \E r \in Reqs :
       /\ NoRouteMatch502(r)
       /\ MatchRoute(Catalog[req[r].upSnap].routes, req[r].path) = 0


(***************************************************************************)
(* C29: request_filter ends in exactly one of four outcomes and writes at  *)
(* most one response per request: 404 (no route), 403 (a plugin denied),   *)
(* 500 (a plugin failed), each with handled = true, or no response with    *)
(* handled = false; handled = false is returned if and only if a route     *)
(* matched and every plugin of that route returned allow; upstream_peer    *)
(* runs only after handled = false.                                        *)
(***************************************************************************)
\* request_filter is over for request r: it returned, or it unwound
FilterEnded(r) == req[r].pc \in {"forward", "done", "panicked"}

\* a route matched and every plugin of that route ran and returned allow
AllAllowed(r) ==
    /\ req[r].route # 0
    /\ req[r].invoked = [k \in 1..Len(ChainOf(r)) |-> k]
    /\ \A k \in 1..Len(ChainOf(r)) :
          Files[ChainOf(r)[k].wasm_path] = "ret0"

FourOutcomes(r) ==
    \/ req[r].resp = <<404>> /\ req[r].handled = "true" /\ req[r].route = 0
    \/ /\ req[r].resp = <<403>> /\ req[r].handled = "true"
       /\ req[r].route # 0
       /\ PluginDenies(ChainOf(r)[req[r].next])
    \/ /\ req[r].resp = <<500>> /\ req[r].handled = "true"
       /\ req[r].route # 0
       /\ PluginFails(ChainOf(r)[req[r].next])
    \/ req[r].resp = <<>> /\ req[r].handled = "false"

C29_FourOutcomes ==
    \A r \in Reqs :
       /\ Len(req[r].resp) <= 1
       /\ FilterEnded(r) => FourOutcomes(r)
       /\ FilterEnded(r) => (req[r].handled = "false" <=> AllAllowed(r))
       /\ req[r].upRan => req[r].handled = "false"

\* request_filter unwound out of a plugin's host call: nothing was written
\* and nothing was returned
C29_HostPanicUnwinds ==
    \E r \in Reqs :
       /\ req[r].pc = "panicked"
       /\ req[r].resp = <<>>
       /\ req[r].handled = "none"
       /\ Files[ChainOf(r)[req[r].next].wasm_path] = "hostpanic"


(***************************************************************************)
(* C31: policy is not bypassed by a hot swap: every request forwarded to   *)
(* an upstream was allowed by every plugin of the route that upstream_peer *)
(* used to select that upstream, even when a new snapshot is published     *)
(* between the request's request_filter and its upstream_peer.             *)
(***************************************************************************)
\* upstream_peer returned a peer for request r
ForwardedUpstream(r) == req[r].upRan /\ req[r].peer.kind = "peer"

\* the plugins of the route that upstream_peer's own match selected
UpChainOf(r) ==
    Catalog[req[r].upSnap].routes[FirstHit(req[r].upSnap, req[r].path)].plugins

\* request_filter ran plugin pl for request r and it returned allow
AllowedBy(r, pl) ==
    \E k \in 1..Len(req[r].invoked) :
       /\ ChainOf(r)[req[r].invoked[k]] = pl
       /\ Files[pl.wasm_path] = "ret0"

C31_PolicyNotBypassed ==
    \A r \in Reqs :
       ForwardedUpstream(r) =>
          \A k \in 1..Len(UpChainOf(r)) : AllowedBy(r, UpChainOf(r)[k])

\* a request forwarded through a route whose denying plugin it never ran:
\* the snapshot was replaced between the two phases
C31_ForwardedPastDeny ==
    \E r \in Reqs :
       /\ ForwardedUpstream(r)
       /\ req[r].upSnap # req[r].rfSnap
       /\ req[r].invoked = <<>>
       /\ \E k \in 1..Len(UpChainOf(r)) : PluginDenies(UpChainOf(r)[k])


(***************************************************************************)
(* C32: a failed module load leaves the cache unchanged: get_module on a   *)
(* path whose file does not exist or does not compile returns an error     *)
(* without inserting any entry, the invocation is answered with 500, and a *)
(* later get_module for the same path, once the file is valid, loads and   *)
(* caches it; a failure never changes an entry that is already cached.     *)
(***************************************************************************)
\* thread t leaves position pc in this step
Leaves(t, pc) == gm.call[t].pc = pc /\ gm'.call[t].pc # pc

\* the step in which get_module of thread t meets a missing or broken file
MeetsBadFile(t) ==
    \/ Leaves(t, "exists") /\ gm.files[gm.call[t].path] = "absent"
    \/ Leaves(t, "from_file") /\ gm.files[gm.call[t].path] # "valid"

FailedLoadStep ==
    \A t \in Callers :
       /\ MeetsBadFile(t) =>
             /\ gm'.call[t].pc = "failed"
             /\ gm'.call[t].resp = 500
       /\ (gm.call[t].pc # "failed" /\ gm'.call[t].pc = "failed") =>
             gm'.cache = gm.cache

\* a call that found the file valid on entry does not fail, and a call that
\* returned Ok leaves its path cached
ValidLoadCached ==
    \A t \in Callers :
       /\ gm.call[t].valid0 => gm.call[t].pc # "failed"
       /\ gm.call[t].pc = "failed" =>
             gm.call[t].resp = 500 /\ gm.call[t].module = 0
       /\ gm.call[t].pc \in {"returned", "on_request"} =>
             /\ gm.cache[gm.call[t].path] # 0
             /\ gm.call[t].module # 0
             /\ gm.call[t].resp = 0

\* an entry of the cache is only ever made from a file that is valid then
CachedFromValid ==
    \A p \in DiskPaths : gm.cache[p] # 0 => gm.files[p] = "valid"

C32_FailedLoadLeavesCache ==
    /\ []ValidLoadCached
    /\ []CachedFromValid
    /\ [][FailedLoadStep]_vars

\* the load of a path failed, the file became valid, and a later call has
\* loaded and cached it, while the other path stayed cached
C32_Witness ==
    /\ "late.wasm" \in gm.failed
    /\ gm.cache["late.wasm"] # 0
    /\ gm.cache["good.wasm"] # 0
    /\ \E t \in Callers :
          /\ gm.call[t].path = "late.wasm"
          /\ gm.call[t].pc = "on_request"


(***************************************************************************)
(* C33: the sockmap installer inserts the current socket into the SockMap, *)
(* under the key (remote_ip4, local_ip4, remote_port, local_port) of the   *)
(* connection, on the passive-established (4) and active-established (5)   *)
(* callbacks and only on those: every other socket operation leaves the    *)
(* SockMap unchanged, and the redirector never inserts or deletes.         *)
(***************************************************************************)
\* the key of the claim for socket id: the 4-tuple of its connection
TupleKey(id) ==
    PacketLog(bpf.conn[id].remote_ip4, bpf.conn[id].local_ip4,
              bpf.conn[id].remote_port, bpf.conn[id].local_port)

\* this step is the established callback of socket id
EstablishedStep(id) == id \notin bpf.cb /\ id \in bpf'.cb

\* every step that is not an established callback leaves SOCK_MAP as it is
OnlyEstablishedWrites ==
    (bpf.pc = "sock" /\ bpf'.map # bpf.map) =>
        \E id \in {"A", "B"} : EstablishedStep(id)

\* an established callback puts the socket under its connection's 4-tuple,
\* unless the kernel refuses the update (the map is full)
EstablishedInserts ==
    \A id \in {"A", "B"} :
       (bpf.pc = "sock" /\ EstablishedStep(id)) =>
           \/ bpf'.map = MapInsert(bpf.map, TupleKey(id), id)
           \/ bpf'.map = bpf.map

C33_InsertOnEstablishedOnly ==
    [][OnlyEstablishedWrites /\ EstablishedInserts]_vars

\* a socket stored under a key whose port_src is 0 although the remote
\* port of its connection is not
C33_StoredWithoutRemotePort ==
    /\ bpf.pc = "sock"
    /\ bpf.le
    /\ \E e \in bpf.map :
          /\ e[1].port_src = 0
          /\ bpf.conn[e[2]].remote_port # 0
          /\ e[1] # TupleKey(e[2])


(***************************************************************************)
(* C34: lock discipline of the module cache: get_module never holds the    *)
(* read lock while it acquires the write lock, holds no cache lock while   *)
(* it loads and compiles from disk or while a plugin executes or is        *)
(* suspended in a host call, and holds the write lock only for the insert; *)
(* so concurrent get_module calls cannot deadlock, and a cache hit is      *)
(* never blocked by a compilation or an in-flight plugin call of another   *)
(* request.                                                                *)
(***************************************************************************)
\* thread t holds the read lock, the write lock
HoldsRead(t) == t \in gm.readers
HoldsWrite(t) == gm.writer = t

\* thread t waits for a lock it cannot have now
BlockedOnLock(t) ==
    \/ gm.call[t].pc = "rlock" /\ ~ReadLockFree(gm)
    \/ gm.call[t].pc = "wlock" /\ ~WriteLockFree(gm)

\* the next step of thread t inside run_plugin
DiskStep(t) ==
    \/ DiskReadLock(t)
    \/ DiskLookup(t)
    \/ DiskExists(t)
    \/ DiskFromFile(t)
    \/ DiskWriteLock(t)
    \/ DiskInsert(t)
    \/ DiskOnRequest(t)
    \/ DiskDone(t)

LockDiscipline ==
    \A t \in Callers :
       /\ HoldsRead(t) => gm.call[t].pc = "lookup"
       /\ HoldsWrite(t) => gm.call[t].pc = "insert"
       /\ gm.call[t].pc = "wlock" => ~HoldsRead(t)
       /\ gm.call[t].pc \in {"exists", "from_file", "returned", "on_request"} =>
             ~HoldsRead(t) /\ ~HoldsWrite(t)
       /\ ~(gm.writer # 0 /\ gm.readers # {})

\* whoever is inside run_plugin can take its next step, or waits for a lock
\* while some other thread can take its next step
NoLockDeadlock ==
    \A t \in Callers :
       gm.call[t].pc # "idle" =>
          \/ ENABLED DiskStep(t)
          \/ /\ BlockedOnLock(t)
             /\ \E u \in Callers \ {t} : ENABLED DiskStep(u)

\* a thread about to look the cache up waits only for an insert in
\* progress or, where writers go first, for a thread at the write lock
HitNotBlocked ==
    \A t \in Callers :
       (gm.call[t].pc = "rlock" /\ ~ReadLockFree(gm)) =>
          \E u \in Callers \ {t} : gm.call[u].pc \in {"insert", "wlock"}

C34_LockDiscipline == LockDiscipline /\ NoLockDeadlock /\ HitNotBlocked

\* a cache hit under the read lock while another thread compiles a file and
\* is not yet in the cache
C34_Witness ==
    \E t \in Callers, u \in Callers :
       /\ gm.call[t].pc = "lookup"
       /\ HoldsRead(t)
       /\ gm.cache[gm.call[t].path] # 0
       /\ gm.call[u].pc = "from_file"
       /\ gm.cache[gm.call[u].path] = 0

====
